---------------------------- MODULE Spec2Model ----------------------------
(***************************************************************************)
(* State-machine model of the WordSquad lobby server                       *)
(* (src/backend/server.py, src/backend/game_logic.py,                      *)
(* src/backend/models.py).                                                 *)
(*                                                                         *)
(* Conventions                                                             *)
(*  - a word is a 5-tuple of one-letter strings;                           *)
(*  - an emoji string is a tuple of symbols, "-" being the separator that  *)
(*    get_emoji_variant writes and get_base_emoji splits on;               *)
(*  - a player token is a record [id, len, chars]: the length and the set  *)
(*    of characters are what the healing code inspects;                    *)
(*  - scores are kept in HALF points (Python adds value / 2, a float):     *)
(*    every score of the model is twice the score of the program;          *)
(*  - Python's None is NoEmoji, NoToken, NoLetter, NoIndex, NoTime,        *)
(*    according to the type of the field.                                  *)
(***************************************************************************)
EXTENDS Integers, Sequences, FiniteSets, TLC

VARIABLES
    LOBBIES,                  \* server.LOBBIES: code -> GameState
    RECENTLY_REMOVED_LOBBIES, \* server.RECENTLY_REMOVED_LOBBIES: code -> time
    current_state,            \* server.current_state: the lobby the handlers work on
    last_purge_time,          \* server._last_purge_time
    persisted,                \* what save_data wrote: code -> snapshot
    now,                      \* the value time.time() returns
    resp,                     \* the last request and its response
    threads,                  \* request threads inside guess_word (SpecConc)
    call,                     \* a call of a pure function (SpecPure)
    REQUEST_TIMES,            \* CREATION_TIMES, API_REQUEST_TIMES, GUESS_REQUEST_TIMES: key -> timestamps
    admitted                  \* every call a limiter let through so far: key -> times

vars == <<LOBBIES, RECENTLY_REMOVED_LOBBIES, current_state, last_purge_time, persisted,
          now, resp, threads, call, REQUEST_TIMES, admitted>>

-----------------------------------------------------------------------------
(* Program constants *)

LOBBY_CREATION_LIMIT == 5

LOBBY_CREATION_WINDOW == 60


MAX_ROWS == 6

WIN_BONUS == 3

LOSS_PENALTY == 3

NO_POINTS_PENALTY == 1

UUID_HEX_LEN == 32

WORD_LEN == 5

DEFAULT_LOBBY == "DEFAULT"

HexChars == {"0", "1", "2", "3", "4", "5", "6", "7", "8", "9",
             "a", "b", "c", "d", "e", "f"}

EMOJI_VARIANTS == <<"red", "blue", "green", "yellow", "purple", "orange", "pink", "cyan">>

(* SCRABBLE_SCORES.get(letter, 1) *)
ScrabbleScore(letter) ==
    CASE letter \in {"a", "e", "i", "l", "n", "o", "r", "s", "t", "u"} -> 1
      [] letter \in {"d", "g"} -> 2
      [] letter \in {"b", "c", "m", "p"} -> 3
      [] letter \in {"f", "h", "v", "w", "y"} -> 4
      [] letter = "k" -> 5
      [] letter \in {"j", "x"} -> 8
      [] letter \in {"q", "z"} -> 10
      [] OTHER -> 1

(* None, by type *)
NoLetter == "None"
NoEmoji == <<>>
NoToken == [id |-> "None", len |-> 0, chars |-> {}]
NoIndex == -1
NoTime == 0

Pos == 1..WORD_LEN

-----------------------------------------------------------------------------
(* result_for_guess: the two passes over a working copy of the target *)

(* list.index(x): the first position holding x *)
IndexOf(list, x) == CHOOSE i \in 1..Len(list) : list[i] = x /\ \A j \in 1..(i - 1) : list[j] # x

InList(list, x) == \E i \in 1..Len(list) : list[i] = x

(* first loop: exact matches, each removed from target_letters *)
FirstPass(guess, target) ==
    [result |-> [i \in Pos |-> IF guess[i] = target[i] THEN "correct" ELSE "absent"],
     target_letters |-> [i \in Pos |-> IF guess[i] = target[i] THEN NoLetter ELSE target[i]]]

(* second loop, iteration i and the ones after it *)
RECURSIVE SecondPass(_, _, _, _)
SecondPass(guess, result, target_letters, i) ==
    IF i > WORD_LEN THEN result
    ELSE IF result[i] = "correct" THEN SecondPass(guess, result, target_letters, i + 1)
    ELSE IF InList(target_letters, guess[i])
         THEN SecondPass(guess,
                         [result EXCEPT ![i] = "present"],
                         [target_letters EXCEPT ![IndexOf(target_letters, guess[i])] = NoLetter],
                         i + 1)
         ELSE SecondPass(guess, result, target_letters, i + 1)

(* faulty variant: the second loop does not consume the occurrence it matched *)
result_for_guess_NoConsume(guess, target) ==
    LET fp == FirstPass(guess, target)
    IN  [i \in Pos |-> IF fp.result[i] = "correct" THEN "correct"
                       ELSE IF InList(fp.target_letters, guess[i]) THEN "present"
                       ELSE "absent"]

result_for_guess(guess, target) ==
    LET fp == FirstPass(guess, target)
    IN  SecondPass(guess, fp.result, fp.target_letters, 1)

-----------------------------------------------------------------------------
(* Python dict and string helpers *)

EmptyDict == <<>>

Put(d, k, v) == [x \in (DOMAIN d) \cup {k} |-> IF x = k THEN v ELSE d[x]]

(* dict.pop(k, None) *)
Pop(d, k) == [x \in (DOMAIN d) \ {k} |-> d[x]]

(* dict.get(k, default) *)
Get(d, k, default) == IF k \in DOMAIN d THEN d[k] ELSE default

(* str.lower() on one character *)
Lower(ch) ==
    CASE ch = "A" -> "a" [] ch = "B" -> "b" [] ch = "C" -> "c" [] ch = "E" -> "e"
      [] ch = "R" -> "r" [] ch = "T" -> "t" [] OTHER -> ch

(* (data.get("guess") or "").strip().lower(): blanks at both ends go, letters are lowered *)
RECURSIVE Strip(_)
Strip(str) ==
    IF str = <<>> THEN str
    ELSE IF Head(str) = " " THEN Strip(Tail(str))
    ELSE IF str[Len(str)] = " " THEN Strip(SubSeq(str, 1, Len(str) - 1))
    ELSE str

NormalizeGuess(raw) == LET st == Strip(raw) IN [i \in 1..Len(st) |-> Lower(st[i])]

-----------------------------------------------------------------------------
(* models.py: emoji variants *)

(* the first of the named variants that is free, or <<>> *)
RECURSIVE NamedVariant(_, _, _)
NamedVariant(base_emoji, existing_emojis, k) ==
    IF k > Len(EMOJI_VARIANTS) THEN <<>>
    ELSE IF (base_emoji \o <<"-", EMOJI_VARIANTS[k]>>) \notin existing_emojis
         THEN base_emoji \o <<"-", EMOJI_VARIANTS[k]>>
         ELSE NamedVariant(base_emoji, existing_emojis, k + 1)

(* while True: the first free numbered variant from counter on *)
RECURSIVE NumberedVariant(_, _, _)
NumberedVariant(base_emoji, existing_emojis, counter) ==
    IF (base_emoji \o <<"-", ToString(counter)>>) \notin existing_emojis
    THEN base_emoji \o <<"-", ToString(counter)>>
    ELSE NumberedVariant(base_emoji, existing_emojis, counter + 1)

(* faulty variant: the numbered names start at the number of named variants *)
get_emoji_variant_CountFromEight(base_emoji, existing_emojis) ==
    IF base_emoji \notin existing_emojis THEN base_emoji
    ELSE IF NamedVariant(base_emoji, existing_emojis, 1) # <<>>
         THEN NamedVariant(base_emoji, existing_emojis, 1)
         ELSE NumberedVariant(base_emoji, existing_emojis, Len(EMOJI_VARIANTS))

get_emoji_variant(base_emoji, existing_emojis) ==
    IF base_emoji \notin existing_emojis THEN base_emoji
    ELSE IF NamedVariant(base_emoji, existing_emojis, 1) # <<>>
         THEN NamedVariant(base_emoji, existing_emojis, 1)
         ELSE NumberedVariant(base_emoji, existing_emojis, Len(EMOJI_VARIANTS) + 1)

(* emoji_variant.split("-")[0] when the string holds a "-" *)
get_base_emoji(emoji_variant) ==
    IF InList(emoji_variant, "-")
    THEN SubSeq(emoji_variant, 1, IndexOf(emoji_variant, "-") - 1)
    ELSE emoji_variant

-----------------------------------------------------------------------------
(* GameState (models.py) *)

(* the value fetch_definition returns for a word *)
fetch_definition(word) == <<"definition of">> \o word

NoDefinition == <<>>

GameState(t) ==
    [leaderboard |-> EmptyDict,
     ip_to_emoji |-> EmptyDict,
     player_map |-> EmptyDict,
     winner_emoji |-> NoEmoji,
     target_word |-> <<>>,
     guesses |-> <<>>,
     is_over |-> FALSE,
     found_greens |-> {},
     found_yellows |-> {},
     past_games |-> <<>>,
     definition |-> NoDefinition,
     last_word |-> <<>>,
     last_definition |-> NoDefinition,
     win_timestamp |-> NoTime,
     chat_messages |-> <<>>,
     chat_rate_limits |-> EmptyDict,
     listeners |-> EmptyDict,     \* the queues of the open streams, each with what it holds
     daily_double_index |-> NoIndex,
     daily_double_winners |-> {},
     daily_double_pending |-> EmptyDict,
     host_token |-> "None",
     phase |-> "waiting",
     last_activity |-> t,
     \* history variable, not a field of the program: the half points paid so far
     \* in this round for each letter
     paid |-> EmptyDict]

(* _reset_state(s) for a given s: everything but the host token is cleared *)
reset_state(s, t) == [GameState(t) EXCEPT !.host_token = s.host_token, !.listeners = s.listeners,
                                          !.chat_rate_limits = s.chat_rate_limits]

(* game_logic.pick_new_word, with the two random draws as parameters *)
(* faulty variant: the pending hints are dropped with the round *)
pick_new_word_DropsPending(s, word, dd_index, t) ==
    [s EXCEPT !.target_word = word,
              !.guesses = <<>>,
              !.is_over = FALSE,
              !.winner_emoji = NoEmoji,
              !.found_greens = {},
              !.found_yellows = {},
              !.definition = NoDefinition,
              !.win_timestamp = NoTime,
              !.daily_double_index = IF MAX_ROWS > 1 THEN dd_index ELSE NoIndex,
              !.daily_double_winners = {},
              !.daily_double_pending = EmptyDict,
              !.phase = "waiting",
              !.last_activity = t,
              !.paid = EmptyDict]

pick_new_word(s, word, dd_index, t) ==
    [s EXCEPT !.target_word = word,
              !.guesses = <<>>,
              !.is_over = FALSE,
              !.winner_emoji = NoEmoji,
              !.found_greens = {},
              !.found_yellows = {},
              !.definition = NoDefinition,
              !.win_timestamp = NoTime,
              !.daily_double_index = IF MAX_ROWS > 1 THEN dd_index ELSE NoIndex,
              !.daily_double_winners = {},
              !.daily_double_pending = [p \in DOMAIN s.daily_double_pending |-> 0],
              !.phase = "waiting",
              !.last_activity = t,
              !.paid = EmptyDict]

(* the range random.randint(0, (MAX_ROWS - 1) * 5 - 1) draws from *)
DailyDoubleRange == 0..((MAX_ROWS - 1) * WORD_LEN - 1)

-----------------------------------------------------------------------------
(* The shared state as one value w (the "world"), so that a handler is a      *)
(* function from worlds to worlds:                                            *)
(*   w.L = LOBBIES, w.R = RECENTLY_REMOVED_LOBBIES, w.cur = current_state,    *)
(*   w.lp = _last_purge_time, w.P = the persisted snapshots                   *)

World == [L |-> LOBBIES, R |-> RECENTLY_REMOVED_LOBBIES, cur |-> current_state,
          lp |-> last_purge_time, P |-> persisted]

SetWorld(w) ==
    /\ LOBBIES' = w.L
    /\ RECENTLY_REMOVED_LOBBIES' = w.R
    /\ current_state' = w.cur
    /\ last_purge_time' = w.lp
    /\ persisted' = w.P

(* the object current_state refers to *)
CS(w) == w.L[w.cur]

WithCS(w, s) == [w EXCEPT !.L[w.cur] = s]

(* Registry constants *)
LOBBY_TTL == 1800

PURGE_COOLDOWN == 5

REMOVAL_COOLDOWN == 30

CLOSE_CALL_WINDOW == 2

(* _lobby_id: the code of the state, DEFAULT when it is not registered *)
lobby_id(w) == IF w.cur \in DOMAIN w.L THEN w.cur ELSE DEFAULT_LOBBY

(* data_persistence.save_data: every field but listeners and chat_rate_limits *)
Snapshot(s) == [s EXCEPT !.listeners = EmptyDict, !.chat_rate_limits = EmptyDict]

save_data(w, s, code) == [w EXCEPT !.P = Put(@, code, Snapshot(s))]

(* save_data_legacy(): the current state under its own code *)
save_data_legacy(w) == save_data(w, CS(w), lobby_id(w))

(* build_state_payload(s=s) as broadcast_state serialises it: the values of   *)
(* that instant.  The leaderboard is a list sorted by score, highest first;  *)
(* equal scores stay in dict order in the code, which the model does not     *)
(* keep, and are listed here in some fixed order.                            *)
build_state_payload(s) ==
    LET Top(S) == CHOOSE e \in S : \A x \in S : s.leaderboard[e].score >= s.leaderboard[x].score
        sorted[S \in SUBSET DOMAIN s.leaderboard] ==
            IF S = {} THEN <<>>
            ELSE <<[emoji |-> Top(S), score |-> s.leaderboard[Top(S)].score,
                    last_active |-> s.leaderboard[Top(S)].last_active]>>
                   \o sorted[S \ {Top(S)}]
    IN  [guesses |-> s.guesses,
         target_word |-> IF s.is_over THEN s.target_word ELSE <<>>,
         is_over |-> s.is_over,
         leaderboard |-> sorted[DOMAIN s.leaderboard],
         active_emojis |-> DOMAIN s.leaderboard,
         winner_emoji |-> s.winner_emoji,
         phase |-> s.phase,
         past_games |-> s.past_games,
         definition |-> IF s.is_over THEN s.definition ELSE NoDefinition,
         last_word |-> s.last_word,
         last_definition |-> s.last_definition,
         chat_messages |-> s.chat_messages,
         daily_double_status |-> [e \in DOMAIN s.leaderboard |-> e \in DOMAIN s.daily_double_pending]]

(* broadcast_state(): put_nowait on every queue of current_state.listeners.  *)
(* The queues are queue.Queue() without a maxsize, so put_nowait never       *)
(* raises and the discard of line 528 is never reached.                      *)
broadcast_state(w) ==
    LET s == CS(w)
    IN  WithCS(w, [s EXCEPT !.listeners =
                       [q \in DOMAIN @ |-> Append(@[q], build_state_payload(s))]])

(* data_persistence.load_data into a fresh object *)
load_data(w, s, code, t) ==
    IF code \in DOMAIN w.P
    THEN [w.P[code] EXCEPT !.listeners = s.listeners, !.chat_rate_limits = s.chat_rate_limits]
    ELSE reset_state(s, t)

(* _do_purge_lobbies *)
(* faulty variant: every idle lobby is purged, whatever its phase or players *)
do_purge_lobbies_IdleOnly(w, t) ==
    LET expired == {cid \in DOMAIN w.L :
                        /\ cid # DEFAULT_LOBBY
                        /\ t - w.L[cid].last_activity > LOBBY_TTL}
        expired_removals == {c \in DOMAIN w.R : t - w.R[c] > REMOVAL_COOLDOWN * 2}
    IN  [w EXCEPT !.L = [cid \in (DOMAIN w.L) \ expired |-> w.L[cid]],
                  !.R = [c \in (DOMAIN w.R) \ expired_removals |-> w.R[c]]]

do_purge_lobbies(w, t) ==
    LET expired == {cid \in DOMAIN w.L :
                        /\ cid # DEFAULT_LOBBY
                        /\ t - w.L[cid].last_activity > LOBBY_TTL
                        /\ (w.L[cid].phase = "finished" \/ DOMAIN w.L[cid].leaderboard = {})}
        expired_removals == {c \in DOMAIN w.R : t - w.R[c] > REMOVAL_COOLDOWN * 2}
    IN  [w EXCEPT !.L = [cid \in (DOMAIN w.L) \ expired |-> w.L[cid]],
                  !.R = [c \in (DOMAIN w.R) \ expired_removals |-> w.R[c]]]

(* purge_lobbies: at most one purge every PURGE_COOLDOWN seconds *)
purge_lobbies(w, t) ==
    IF t - w.lp < PURGE_COOLDOWN THEN w
    ELSE do_purge_lobbies([w EXCEPT !.lp = t], t)

force_purge_lobbies(w, t) == do_purge_lobbies([w EXCEPT !.lp = t], t)

(* get_lobby: [w, found]; word and dd_index are the draws of pick_new_word *)
(* faulty variant: the cooldown still holds at the instant it ends *)
get_lobby_CooldownInclusive(w, code, t, word, dd_index) ==
    IF code \in DOMAIN w.L THEN [w |-> w, found |-> TRUE]
    ELSE IF code \in DOMAIN w.R /\ w.R[code] # NoTime /\ (t - w.R[code]) <= REMOVAL_COOLDOWN
         THEN [w |-> w, found |-> FALSE]
    ELSE LET fresh == reset_state(GameState(t), t)
             w1 == [w EXCEPT !.L = Put(@, code, fresh)]
             loaded == load_data(w1, fresh, code, t)
             w2 == [w1 EXCEPT !.L[code] = loaded]
         IN  IF loaded.target_word = <<>>
             THEN LET picked == pick_new_word(loaded, word, dd_index, t)
                  IN  [w |-> save_data([w2 EXCEPT !.L[code] = picked], picked, code),
                       found |-> TRUE]
             ELSE [w |-> w2, found |-> TRUE]

get_lobby(w, code, t, word, dd_index) ==
    IF code \in DOMAIN w.L THEN [w |-> w, found |-> TRUE]
    ELSE IF code \in DOMAIN w.R /\ w.R[code] # NoTime /\ (t - w.R[code]) < REMOVAL_COOLDOWN
         THEN [w |-> w, found |-> FALSE]
    ELSE LET fresh == reset_state(GameState(t), t)
             w1 == [w EXCEPT !.L = Put(@, code, fresh)]
             loaded == load_data(w1, fresh, code, t)
             w2 == [w1 EXCEPT !.L[code] = loaded]
         IN  IF loaded.target_word = <<>>
             THEN LET picked == pick_new_word(loaded, word, dd_index, t)
                  IN  [w |-> save_data([w2 EXCEPT !.L[code] = picked], picked, code),
                       found |-> TRUE]
             ELSE [w |-> w2, found |-> TRUE]

-----------------------------------------------------------------------------
(* Identity check and reconnection healing.  guess_word, select_hint, chat   *)
(* and leave_lobby each carry a copy of the same test.                       *)

(* len(pid) == 32 and all(c in '0123456789abcdef' for c in pid) *)
LooksLikeUuid(pid) == pid.len = UUID_HEX_LEN /\ pid.chars \subseteq HexChars

(* faulty variant: the source address is not compared *)
identity_check_AnyAddress(s, emoji, player_id, ip) ==
    IF emoji \in DOMAIN s.leaderboard /\ s.leaderboard[emoji].player_id = player_id
    THEN "ok"
    ELSE IF /\ emoji \in DOMAIN s.leaderboard
            /\ player_id # NoToken
            /\ LooksLikeUuid(player_id)
            /\ s.leaderboard[emoji].player_id # NoToken
            /\ LooksLikeUuid(s.leaderboard[emoji].player_id)
         THEN "heal"
         ELSE "reject"

(* "ok": the token is the stored one; "heal": rebind; "reject" *)
identity_check(s, emoji, player_id, ip) ==
    IF emoji \in DOMAIN s.leaderboard /\ s.leaderboard[emoji].player_id = player_id
    THEN "ok"
    ELSE IF /\ emoji \in DOMAIN s.leaderboard
            /\ s.leaderboard[emoji].ip = ip
            /\ player_id # NoToken
            /\ LooksLikeUuid(player_id)
            /\ s.leaderboard[emoji].player_id # NoToken
            /\ LooksLikeUuid(s.leaderboard[emoji].player_id)
         THEN "heal"
         ELSE "reject"

(* the rebinding: stored token replaced, old token out of player_map, new one in *)
heal(s, emoji, player_id) ==
    LET old_player_id == s.leaderboard[emoji].player_id
    IN  [s EXCEPT !.leaderboard[emoji].player_id = player_id,
                  !.player_map = Put(Pop(@, old_player_id), player_id, emoji)]

-----------------------------------------------------------------------------
(* Hard mode *)

(* get_required_letters_and_positions: the letters seen correct or present *)
required_letters(s) ==
    {s.guesses[k].guess[i] : <<k, i>> \in
        {ki \in (1..Len(s.guesses)) \X Pos : s.guesses[ki[1]].result[ki[2]] \in {"correct", "present"}}}

(* green_positions: position -> the letter of the LAST guess that was correct there *)
green_positions(s) ==
    LET greens(i) == {k \in 1..Len(s.guesses) : s.guesses[k].result[i] = "correct"}
        last(i) == CHOOSE k \in greens(i) : \A j \in greens(i) : j <= k
    IN  [i \in {j \in Pos : greens(j) # {}} |-> s.guesses[last(i)].guess[i]]

(* faulty variant: only the positions are enforced, not the letters seen present *)
validate_hard_mode_PositionsOnly(guess, s) ==
    \A idx \in DOMAIN green_positions(s) : guess[idx] = green_positions(s)[idx]

validate_hard_mode(guess, s) ==
    /\ \A idx \in DOMAIN green_positions(s) : guess[idx] = green_positions(s)[idx]
    /\ \A letter \in required_letters(s) : InList(guess, letter)

-----------------------------------------------------------------------------
(* game_logic.WORDS: the word list the server loaded (sgb-words.txt is not   *)
(* part of the sources; these entries stand for it)                          *)

WORDS == {<<"f", "u", "z", "z", "y">>, <<"h", "a", "p", "p", "y">>,
          <<"t", "a", "s", "t", "y">>, <<"p", "a", "r", "t", "y">>,
          <<"e", "a", "r", "t", "h">>, <<"c", "a", "r", "t", "e">>,
          <<"c", "r", "a", "t", "e">>,
          <<"a", "b", "b", "e", "y">>, <<"b", "o", "b", "b", "y">>}

-----------------------------------------------------------------------------
(* guess_word, statement by statement.  A request thread is a record th: its *)
(* inputs, its local variables and its position pc.  Each G_* operator is    *)
(* one group of statements, executed atomically: [w |-> world, th |-> thread]*)
(* `current_state` is read anew by every group, as the global is.            *)

NewThread(legacy, code, raw, emoji, player_id, ip, api_ok, guess_ok) ==
    [pc |-> IF legacy THEN "pre" ELSE "enter",
     legacy |-> legacy, code |-> code, raw |-> raw, guess |-> NormalizeGuess(raw),
     emoji |-> emoji, player_id |-> player_id, ip |-> ip,
     api_ok |-> api_ok, guess_ok |-> guess_ok,
     t |-> NoTime, prev |-> DEFAULT_LOBBY,
     points_delta |-> 0, result |-> <<>>, row_index |-> 0,
     entry_code |-> DEFAULT_LOBBY, ix |-> 0,
     found_this_turn |-> {}, i |-> 1, branch |-> "none",
     won |-> FALSE, over |-> FALSE, dd_award |-> FALSE, close_call |-> FALSE,
     score_code |-> DEFAULT_LOBBY, score_read |-> 0,
     healed |-> FALSE, status |-> 0]

(* leaving the handler: _with_lobby's finally restores current_state *)
Leave(th, status) == [th EXCEPT !.status = status, !.pc = IF th.legacy THEN "done" ELSE "exit"]

(* _with_lobby, up to the call of the handler *)
G_enter(w, th, t, word, dd_index) ==
    LET g == get_lobby(purge_lobbies(w, t), th.code, t, word, dd_index)
    IN  IF ~g.found
        THEN [w |-> g.w, th |-> [th EXCEPT !.status = 404, !.pc = "done"]]
        ELSE [w |-> [g.w EXCEPT !.cur = th.code],
              th |-> [th EXCEPT !.prev = w.cur, !.pc = "pre"]]

(* lines 702-743: rate limits, last_activity, waiting -> active, round over *)
G_pre(w, th, t) ==
    IF ~th.api_ok THEN [w |-> w, th |-> Leave(th, 429)]
    ELSE IF th.player_id # NoToken /\ ~th.guess_ok THEN [w |-> w, th |-> Leave(th, 429)]
    ELSE LET s1 == [CS(w) EXCEPT !.last_activity = t,
                                 !.phase = IF @ = "waiting" THEN "active" ELSE @]
             close == /\ th.guess = s1.target_word
                      /\ s1.win_timestamp # NoTime
                      /\ th.emoji # s1.winner_emoji
                      /\ t - s1.win_timestamp <= CLOSE_CALL_WINDOW
         IN  IF s1.is_over
             THEN [w |-> WithCS(w, s1), th |-> [Leave(th, 403) EXCEPT !.t = t, !.close_call = close]]
             ELSE [w |-> WithCS(w, s1), th |-> [th EXCEPT !.t = t, !.pc = "check"]]

(* faulty variant: the list of earlier guesses is not consulted *)
already_guessed_Never(s, guess) == FALSE

(* lines 746-747: guess in [g["guess"] for g in guesses] *)
already_guessed(s, guess) == \E k \in 1..Len(s.guesses) : s.guesses[k].guess = guess

(* lines 744-748: a 5-letter word of the list, not yet guessed this round *)
G_check(w, th) ==
    IF th.guess = <<>> \/ Len(th.guess) # WORD_LEN \/ th.guess \notin WORDS
    THEN [w |-> w, th |-> Leave(th, 400)]
    ELSE IF already_guessed(CS(w), th.guess) THEN [w |-> w, th |-> Leave(th, 400)]
    ELSE [w |-> w, th |-> [th EXCEPT !.pc = "ident"]]

(* lines 749-787: identity, healing, last_active *)
G_ident(w, th) ==
    LET verdict == identity_check(CS(w), th.emoji, th.player_id, th.ip)
        s1 == IF verdict = "heal" THEN heal(CS(w), th.emoji, th.player_id) ELSE CS(w)
    IN  IF verdict = "reject" THEN [w |-> w, th |-> Leave(th, 403)]
        ELSE [w |-> WithCS(w, [s1 EXCEPT !.leaderboard[th.emoji].last_active = th.t]),
              th |-> [th EXCEPT !.healed = (verdict = "heal"), !.pc = "hard"]]

(* lines 789-791 *)
G_hard(w, th) ==
    IF ~validate_hard_mode(th.guess, CS(w)) THEN [w |-> w, th |-> Leave(th, 400)]
    ELSE [w |-> w, th |-> [th EXCEPT !.pc = "append"]]

(* lines 793-794: the row and the verdict, read from current_state *)
G_result(w, th) ==
    LET s == CS(w)
    IN  [w |-> w,
         th |-> [th EXCEPT !.row_index = Len(s.guesses),
                           !.result = result_for_guess(th.guess, s.target_word),
                           !.pc = "entry"]]

(* lines 795-796: the entry with that verdict goes on the list current_state *)
(* has now                                                                   *)
G_entry(w, th) ==
    LET s == CS(w)
        new_entry == [guess |-> th.guess, result |-> th.result, emoji |-> th.emoji, ts |-> th.t,
                      points |-> 0, has_points |-> FALSE]
    IN  [w |-> WithCS(w, [s EXCEPT !.guesses = Append(@, new_entry)]),
         th |-> [th EXCEPT !.entry_code = w.cur, !.ix = Len(s.guesses) + 1, !.pc = "dd"]]

(* lines 793-796: the entry is appended before it is scored *)
G_append(w, th) == G_entry(w, G_result(w, th).th)

(* lines 798-813: Daily Double *)
(* faulty variant: the verdict at the tile's column is not looked at *)
G_dd_AnyVerdict(w, th) ==
    LET s == CS(w)
        dd_row == s.daily_double_index \div WORD_LEN
        award == /\ s.daily_double_index # NoIndex
                 /\ th.row_index = dd_row
                 /\ th.emoji \notin s.daily_double_winners
    IN  IF award
        THEN [w |-> WithCS(w, [s EXCEPT !.daily_double_winners = @ \cup {th.emoji},
                                        !.daily_double_pending = Put(@, th.emoji, th.row_index + 1)]),
              th |-> [th EXCEPT !.dd_award = TRUE, !.pc = "decide"]]
        ELSE [w |-> w, th |-> [th EXCEPT !.pc = "decide"]]

G_dd(w, th) ==
    LET s == CS(w)
        dd_row == s.daily_double_index \div WORD_LEN
        dd_col == s.daily_double_index % WORD_LEN
        award == /\ s.daily_double_index # NoIndex
                 /\ th.row_index = dd_row
                 /\ th.result[dd_col + 1] = "correct"
                 /\ th.emoji \notin s.daily_double_winners
    IN  IF award
        THEN [w |-> WithCS(w, [s EXCEPT !.daily_double_winners = @ \cup {th.emoji},
                                        !.daily_double_pending = Put(@, th.emoji, th.row_index + 1)]),
              th |-> [th EXCEPT !.dd_award = TRUE, !.pc = "decide"]]
        ELSE [w |-> w, th |-> [th EXCEPT !.pc = "decide"]]

(* faulty variant: a correct letter is paid although it is already green *)
score_branch_CorrectIgnoresGreens(s, letter, r, found_this_turn) ==
    IF r = "correct"
    THEN IF letter \notin found_this_turn
         THEN IF letter \in s.found_yellows THEN "topup" ELSE "green"
         ELSE "none"
    ELSE IF r = "present"
    THEN IF /\ letter \notin s.found_greens
            /\ letter \notin s.found_yellows
            /\ letter \notin found_this_turn
         THEN "yellow" ELSE "none"
    ELSE "none"

(* lines 820-840: which branch of the scoring loop iteration i takes *)
score_branch(s, letter, r, found_this_turn) ==
    IF r = "correct"
    THEN IF letter \notin s.found_greens /\ letter \notin found_this_turn
         THEN IF letter \in s.found_yellows THEN "topup" ELSE "green"
         ELSE "none"
    ELSE IF r = "present"
    THEN IF /\ letter \notin s.found_greens
            /\ letter \notin s.found_yellows
            /\ letter \notin found_this_turn
         THEN "yellow" ELSE "none"
    ELSE "none"

(* the conditions of iteration th.i *)
G_decide(w, th) ==
    IF th.i > WORD_LEN THEN [w |-> w, th |-> [th EXCEPT !.pc = "end"]]
    ELSE LET b == score_branch(CS(w), th.guess[th.i], th.result[th.i], th.found_this_turn)
         IN  IF b = "none" THEN [w |-> w, th |-> [th EXCEPT !.i = @ + 1]]
             ELSE [w |-> w, th |-> [th EXCEPT !.branch = b, !.pc = "apply"]]

(* the half points a branch adds: value for "green", value / 2 otherwise *)
branch_points(b, letter) == IF b = "green" THEN 2 * ScrabbleScore(letter) ELSE ScrabbleScore(letter)

(* the body of the branch taken by iteration th.i (lines 826-834, 841-844) *)
G_apply(w, th) ==
    LET s == CS(w)
        letter == th.guess[th.i]
        pts == branch_points(th.branch, letter)
        th1 == [th EXCEPT !.points_delta = @ + pts, !.found_this_turn = @ \cup {letter},
                          !.i = @ + 1, !.branch = "none", !.pc = "decide"]
        paid1 == Put(s.paid, letter, Get(s.paid, letter, 0) + pts)
    IN  CASE th.branch = "topup" ->
                IF letter \notin s.found_yellows
                THEN \* set.remove raises KeyError
                     [w |-> w, th |-> Leave([th EXCEPT !.points_delta = @ + pts], 500)]
                ELSE [w |-> WithCS(w, [s EXCEPT !.found_yellows = @ \ {letter},
                                                !.found_greens = @ \cup {letter},
                                                !.paid = paid1]),
                      th |-> th1]
          [] th.branch = "green" ->
                [w |-> WithCS(w, [s EXCEPT !.found_greens = @ \cup {letter}, !.paid = paid1]),
                 th |-> th1]
          [] OTHER ->
                [w |-> WithCS(w, [s EXCEPT !.found_yellows = @ \cup {letter}, !.paid = paid1]),
                 th |-> th1]

(* faulty variant: the row limit is compared one row late *)
rows_exhausted_OneLate(s) == Len(s.guesses) = MAX_ROWS + 1

(* line 856: len(current_state.guesses) == MAX_ROWS *)
rows_exhausted(s) == Len(s.guesses) = MAX_ROWS

(* lines 846-860: win bonus, or loss penalty on the last row *)
G_end(w, th) ==
    LET s == CS(w)
        won == th.guess = s.target_word
    IN  IF won
        THEN [w |-> WithCS(w, [s EXCEPT !.winner_emoji = th.emoji, !.is_over = TRUE,
                                        !.win_timestamp = th.t]),
              th |-> [th EXCEPT !.points_delta = @ + 2 * WIN_BONUS, !.won = TRUE, !.over = TRUE,
                                !.pc = "finish"]]
        ELSE IF rows_exhausted(s)
        THEN [w |-> WithCS(w, [s EXCEPT !.is_over = TRUE]),
              th |-> [th EXCEPT !.points_delta = @ - 2 * LOSS_PENALTY, !.over = TRUE,
                                !.pc = "finish"]]
        ELSE [w |-> w, th |-> [th EXCEPT !.pc = "finish"]]

(* lines 862-871: phase finished and the definition; the no-points penalty *)
G_finish(w, th) ==
    LET s == CS(w)
        s1 == IF th.over
              THEN [s EXCEPT !.phase = "finished",
                             !.definition = fetch_definition(s.target_word),
                             !.last_word = s.target_word,
                             !.last_definition = fetch_definition(s.target_word)]
              ELSE s
        delta == IF th.points_delta = 0 /\ ~th.won /\ ~th.over
                 THEN th.points_delta - 2 * NO_POINTS_PENALTY ELSE th.points_delta
    IN  [w |-> WithCS(w, s1), th |-> [th EXCEPT !.points_delta = delta, !.pc = "read"]]

(* line 873, the load of leaderboard[emoji]["score"] *)
G_read(w, th) ==
    IF th.emoji \notin DOMAIN CS(w).leaderboard
    THEN [w |-> w, th |-> Leave(th, 500)]     \* KeyError
    ELSE [w |-> w, th |-> [th EXCEPT !.score_code = w.cur,
                                      !.score_read = CS(w).leaderboard[th.emoji].score,
                                      !.pc = "write"]]

(* line 873, the store into the entry that was loaded *)
G_write(w, th) ==
    IF th.score_code \in DOMAIN w.L /\ th.emoji \in DOMAIN w.L[th.score_code].leaderboard
    THEN [w |-> [w EXCEPT !.L[th.score_code].leaderboard[th.emoji].score =
                              th.score_read + th.points_delta],
          th |-> [th EXCEPT !.pc = "save"]]
    ELSE [w |-> w, th |-> [th EXCEPT !.pc = "save"]]

(* lines 874-901: save, then the points are attached to the entry; the      *)
(* broadcast; response                                                       *)
G_save(w, th) ==
    LET w1 == save_data_legacy(w)
        w2 == IF th.entry_code \in DOMAIN w1.L /\ th.ix <= Len(w1.L[th.entry_code].guesses)
              THEN [w1 EXCEPT !.L[th.entry_code].guesses[th.ix].points = th.points_delta,
                              !.L[th.entry_code].guesses[th.ix].has_points = TRUE]
              ELSE w1
    IN  [w |-> broadcast_state(w2), th |-> Leave(th, 200)]

(* _with_lobby's finally: current_state = prev *)
G_exit(w, th) == [w |-> [w EXCEPT !.cur = th.prev], th |-> [th EXCEPT !.pc = "done"]]

(* one statement group of the thread; t, word, dd_index: the clock and the draws *)
GuessStep(w, th, t, word, dd_index) ==
    CASE th.pc = "enter" -> G_enter(w, th, t, word, dd_index)
      [] th.pc = "pre" -> G_pre(w, th, t)
      [] th.pc = "check" -> G_check(w, th)
      [] th.pc = "ident" -> G_ident(w, th)
      [] th.pc = "hard" -> G_hard(w, th)
      [] th.pc = "append" -> G_append(w, th)
      [] th.pc = "dd" -> G_dd(w, th)
      [] th.pc = "decide" -> G_decide(w, th)
      [] th.pc = "apply" -> G_apply(w, th)
      [] th.pc = "end" -> G_end(w, th)
      [] th.pc = "finish" -> G_finish(w, th)
      [] th.pc = "read" -> G_read(w, th)
      [] th.pc = "write" -> G_write(w, th)
      [] th.pc = "save" -> G_save(w, th)
      [] th.pc = "exit" -> G_exit(w, th)
      [] OTHER -> [w |-> w, th |-> th]

(* the handler run from th.pc to its end with no other thread in between *)
RECURSIVE RunGuess(_, _, _, _, _)
RunGuess(w, th, t, word, dd_index) ==
    IF th.pc = "done" THEN [w |-> w, th |-> th]
    ELSE LET n == GuessStep(w, th, t, word, dd_index)
         IN  RunGuess(n.w, n.th, t, word, dd_index)

(* guess_word as one request, processed alone *)
guess_word(w, legacy, code, raw, emoji, player_id, ip, api_ok, guess_ok, t, word, dd_index) ==
    RunGuess(w, NewThread(legacy, code, raw, emoji, player_id, ip, api_ok, guess_ok),
             t, word, dd_index)

-----------------------------------------------------------------------------
(* The other handlers, each as a function of the world.  They return         *)
(* [w |-> world, status |-> HTTP status, out |-> a value of the response].   *)

Reply(w, status, out) == [w |-> w, status |-> status, out |-> out]

NewEntry(ip, player_id, t) == [ip |-> ip, player_id |-> player_id, score |-> 0, last_active |-> t]

(* set_emoji; fresh is the token uuid.uuid4().hex yields when none was sent *)
set_emoji(w, base_emoji, sent_player_id, ip, t, fresh) ==
    IF base_emoji = NoEmoji THEN Reply(w, 400, NoEmoji)
    ELSE
    LET s == CS(w)
        player_id == IF sent_player_id = NoToken THEN fresh ELSE sent_player_id
        prev_emoji == Get(s.player_map, player_id, NoEmoji)
        keep == prev_emoji # NoEmoji /\ get_base_emoji(prev_emoji) = base_emoji
        existing_emojis == (DOMAIN s.leaderboard) \ {prev_emoji}
        emoji_variant == IF keep THEN prev_emoji ELSE get_emoji_variant(base_emoji, existing_emojis)
        moved == prev_emoji # NoEmoji /\ prev_emoji # emoji_variant
        entry == IF moved
                 THEN Get(s.leaderboard, prev_emoji, NewEntry(ip, player_id, t))
                 ELSE Get(s.leaderboard, emoji_variant, NewEntry(ip, player_id, t))
        lb == IF moved THEN Put(Pop(s.leaderboard, prev_emoji), emoji_variant, entry)
              ELSE Put(s.leaderboard, emoji_variant, entry)
        s1 == [s EXCEPT !.leaderboard = [lb EXCEPT ![emoji_variant].ip = ip,
                                                   ![emoji_variant].player_id = player_id,
                                                   ![emoji_variant].last_active = t],
                        !.ip_to_emoji = Put(@, ip, emoji_variant),
                        !.player_map = Put(@, player_id, emoji_variant),
                        !.last_activity = t]
    IN  Reply(broadcast_state(save_data_legacy(WithCS(w, s1))), 200, emoji_variant)

(* select_hint (POST /hint); col is the column sent, 0..4 when valid *)
select_hint(w, emoji, player_id, col, ip) ==
    LET verdict == identity_check(CS(w), emoji, player_id, ip)
        s1 == IF verdict = "heal" THEN heal(CS(w), emoji, player_id) ELSE CS(w)
        w1 == WithCS(w, s1)
    IN  IF verdict = "reject" THEN Reply(w, 403, <<>>)
        ELSE IF emoji \notin DOMAIN s1.daily_double_pending THEN Reply(w1, 400, <<>>)
        ELSE IF ~(0 <= col /\ col < WORD_LEN) THEN Reply(w1, 400, <<>>)
        ELSE Reply(broadcast_state(save_data_legacy(
                       WithCS(w, [s1 EXCEPT !.daily_double_pending = Pop(@, emoji)]))),
                   200, <<s1.target_word[col + 1]>>)

MAX_CHAT_LEN == 140

(* chat (POST); text_len is the length of the stripped text *)
chat(w, text_len, emoji, player_id, ip, t) ==
    IF text_len = 0 THEN Reply(w, 400, <<>>)
    ELSE IF text_len > MAX_CHAT_LEN THEN Reply(w, 400, <<>>)
    ELSE
    LET verdict == identity_check(CS(w), emoji, player_id, ip)
        s1 == IF verdict = "heal" THEN heal(CS(w), emoji, player_id) ELSE CS(w)
        w1 == WithCS(w, s1)
    IN  IF verdict = "reject" THEN Reply(w, 400, <<>>)
        ELSE IF t - Get(s1.chat_rate_limits, player_id, 0) < 1 THEN Reply(w1, 429, <<>>)
        ELSE Reply(broadcast_state(save_data_legacy(WithCS(w,
                       [s1 EXCEPT !.chat_rate_limits = Put(@, player_id, t),
                                  !.chat_messages = Append(@, [emoji |-> emoji, text |-> text_len,
                                                               ts |-> t]),
                                  !.last_activity = t]))),
                   200, <<>>)

(* reset_game: the round is archived and a new word is picked *)
reset_game(w, word, dd_index, t) ==
    LET s == CS(w)
        s1 == pick_new_word([s EXCEPT !.past_games = Append(@, s.guesses)], word, dd_index, t)
    IN  Reply(broadcast_state(save_data_legacy(WithCS(w, s1))), 200, <<>>)

(* the removal both kick_player and leave_lobby end with: an empty lobby     *)
(* other than DEFAULT is taken out of LOBBIES and its code put on cooldown   *)
(* faulty variant: the emptied lobby is dropped without a cooldown record *)
remove_if_empty_NoCooldownRecord(w, t) ==
    IF lobby_id(w) # DEFAULT_LOBBY /\ DOMAIN CS(w).leaderboard = {}
    THEN [w |-> [w EXCEPT !.L = Pop(@, lobby_id(w))], removed |-> TRUE]
    ELSE [w |-> w, removed |-> FALSE]

remove_if_empty(w, t) ==
    IF lobby_id(w) # DEFAULT_LOBBY /\ DOMAIN CS(w).leaderboard = {}
    THEN [w |-> [w EXCEPT !.L = Pop(@, lobby_id(w)), !.R = Put(@, lobby_id(w), t)],
          removed |-> TRUE]
    ELSE [w |-> w, removed |-> FALSE]

(* kick_player *)
kick_player(w, emoji, token, t) ==
    LET s == CS(w)
    IN  IF emoji = NoEmoji THEN Reply(w, 400, <<>>)
        ELSE IF token # s.host_token THEN Reply(w, 403, <<>>)
        ELSE IF emoji \notin DOMAIN s.leaderboard THEN Reply(w, 404, <<>>)
        ELSE LET ip == s.leaderboard[emoji].ip
                 pid == s.leaderboard[emoji].player_id
                 s1 == [s EXCEPT !.leaderboard = Pop(@, emoji),
                                 !.ip_to_emoji = Pop(@, ip),
                                 !.player_map = IF pid # NoToken THEN Pop(@, pid) ELSE @,
                                 !.daily_double_pending = Pop(@, emoji),
                                 !.winner_emoji = IF @ = emoji THEN NoEmoji ELSE @]
                 r == remove_if_empty(WithCS(w, s1), t)
             IN  Reply(IF r.removed THEN r.w ELSE broadcast_state(r.w), 200, <<r.removed>>)

(* leave_lobby *)
leave_lobby(w, emoji, player_id, ip, t) ==
    LET s == CS(w)
    IN  IF emoji = NoEmoji THEN Reply(w, 400, <<>>)
        ELSE IF player_id = NoToken THEN Reply(w, 400, <<>>)
        ELSE IF emoji \notin DOMAIN s.leaderboard THEN Reply(w, 404, <<>>)
        ELSE
        LET verdict == identity_check(s, emoji, player_id, ip)
            s1 == IF verdict = "heal" THEN heal(s, emoji, player_id) ELSE s
        IN  IF verdict = "reject" THEN Reply(w, 403, <<>>)
            ELSE
            LET eip == s1.leaderboard[emoji].ip
                s2 == [s1 EXCEPT !.leaderboard = Pop(@, emoji),
                                 !.ip_to_emoji = Pop(@, eip),
                                 !.player_map = Pop(@, player_id),
                                 !.daily_double_pending = Pop(@, emoji),
                                 !.winner_emoji = IF @ = emoji THEN NoEmoji ELSE @]
                r == remove_if_empty(WithCS(w, s2), t)
            IN  IF r.removed THEN Reply(r.w, 200, <<TRUE>>)
                ELSE Reply(broadcast_state(save_data_legacy(
                               WithCS(r.w, [s2 EXCEPT !.last_activity = t]))),
                           200, <<FALSE>>)

(* stream: a new queue.Queue() q joins current_state.listeners *)
stream(w, q) == Reply(WithCS(w, [CS(w) EXCEPT !.listeners = Put(@, q, <<>>)]), 200, <<>>)

(* state on a POST request, the heartbeat (lines 580-593): the token sent    *)
(* has to be the stored one                                                  *)
state_post(w, emoji, player_id, t) ==
    LET s == CS(w)
    IN  IF /\ emoji # NoEmoji /\ player_id # NoToken
           /\ emoji \in DOMAIN s.leaderboard
           /\ s.leaderboard[emoji].player_id = player_id
        THEN Reply(save_data_legacy(WithCS(w, [s EXCEPT !.leaderboard[emoji].last_active = t,
                                                        !.last_activity = t])),
                   200, emoji)
        ELSE Reply(w, 200, NoEmoji)

(* func(): the handler a route hands to _with_lobby, with its request rq;     *)
(* state on a GET request (lines 594-601) builds its payload and writes nothing *)
func(w, rq) ==
    CASE rq.h = "state" -> Reply(w, 200, <<>>)
      [] rq.h = "emoji" -> set_emoji(w, rq.emoji, rq.player_id, rq.ip, rq.t, rq.fresh)
      [] rq.h = "chat" -> chat(w, rq.text_len, rq.emoji, rq.player_id, rq.ip, rq.t)
      [] rq.h = "leave" -> leave_lobby(w, rq.emoji, rq.player_id, rq.ip, rq.t)
      [] rq.h = "kick" -> kick_player(w, rq.emoji, rq.token, rq.t)
      [] rq.h = "reset" -> reset_game(w, rq.word, rq.dd_index, rq.t)
      [] rq.h = "stream" -> stream(w, rq.q)
      [] rq.h = "heartbeat" -> state_post(w, rq.emoji, rq.player_id, rq.t)
      [] rq.h = "hint" -> select_hint(w, rq.emoji, rq.player_id, rq.col, rq.ip)

(* _with_lobby(code, func) for a handler that runs without interruption *)
with_lobby(w, code, t, word, dd_index, rq) ==
    LET g == get_lobby(purge_lobbies(w, t), code, t, word, dd_index)
    IN  IF ~g.found THEN Reply(g.w, 404, <<>>)
        ELSE LET r == func([g.w EXCEPT !.cur = code], rq)
             IN  [r EXCEPT !.w.cur = w.cur]

(* lobby_reset: the host token is checked before _with_lobby *)
lobby_reset(w, code, token, t, word, dd_index) ==
    IF code \notin DOMAIN w.L THEN Reply(w, 404, <<>>)
    ELSE IF token # w.L[code].host_token THEN Reply(w, 403, <<>>)
    ELSE with_lobby(w, code, t, word, dd_index,
                    [h |-> "reset", word |-> word, dd_index |-> dd_index, t |-> t])

(* lobby_create; code is what generate_lobby_code returned last, token the    *)
(* host token drawn, create_ok the verdict of the creation limiter            *)
lobby_create(w, code, token, t, word, dd_index, create_ok) ==
    LET w0 == purge_lobbies(w, t)
    IN  IF ~create_ok THEN Reply(w0, 429, <<>>)
        ELSE LET state == [pick_new_word(reset_state(GameState(t), t), word, dd_index, t)
                              EXCEPT !.host_token = token]
                 w1 == [w0 EXCEPT !.L = Put(@, code, state)]
             IN  Reply(save_data(w1, state, code), 200, <<code, token>>)

(* a route: the legacy routes call the handler on current_state, the lobby   *)
(* routes go through _with_lobby                                              *)
Route(w, code, t, word, dd_index, rq) ==
    IF code = DEFAULT_LOBBY THEN func(w, rq) ELSE with_lobby(w, code, t, word, dd_index, rq)

-----------------------------------------------------------------------------
(* The requests the model sends *)

StartTime == 100

LobbyCode == "AAAAAA"

HostToken == "hosttoken"

T1 == [id |-> "t1", len |-> 32, chars |-> {"0", "a"}]
T2 == [id |-> "t2", len |-> 32, chars |-> {"1", "f"}]
\* 32 characters, one of them not a lowercase hex digit
X1 == [id |-> "x1", len |-> 32, chars |-> {"0", "G"}]
\* what uuid.uuid4().hex returns
FreshToken == [id |-> "u1", len |-> 32, chars |-> {"2", "b"}]

IPs == {"ip1", "ip2"}

crate == <<"c", "r", "a", "t", "e">>
carte == <<"c", "a", "r", "t", "e">>
earth == <<"e", "a", "r", "t", "h">>
abbey == <<"a", "b", "b", "e", "y">>
bobby == <<"b", "o", "b", "b", "y">>

(* the request and the response of the last step *)
Req(op, code, emoji, player_id, ip, arg, r) ==
    [op |-> op, code |-> code, emoji |-> emoji, player_id |-> player_id, ip |-> ip,
     arg |-> arg, status |-> r.status, out |-> r.out]

NoReq == [op |-> "none", code |-> DEFAULT_LOBBY, emoji |-> NoEmoji, player_id |-> NoToken,
          ip |-> "", arg |-> <<>>, status |-> 0, out |-> <<>>]

(* the module body of server.py and its __main__ block: the DEFAULT lobby    *)
(* with a word picked and saved                                               *)
Startup(word, dd_index) ==
    LET s == pick_new_word(GameState(StartTime), word, dd_index, StartTime)
    IN  [L |-> Put(EmptyDict, DEFAULT_LOBBY, s), R |-> EmptyDict, cur |-> DEFAULT_LOBBY,
         lp |-> 0, P |-> Put(EmptyDict, DEFAULT_LOBBY, Snapshot(s))]

NoThreads == <<>>

NoCall == <<>>

MaxChat == 1

MaxPlayers == 2

Secrets == {crate}

(* the draws of random.randint the model makes: a subset of DailyDoubleRange *)
DailyDoubleDraws == {3}

(* the verdicts of the two limiters guess_word consults *)
Admissions == {<<TRUE, TRUE>>, <<FALSE, TRUE>>, <<TRUE, FALSE>>}

(* the tokens some lobby knows *)
KnownTokens ==
    UNION {(DOMAIN LOBBIES[c].player_map)
             \cup {LOBBIES[c].leaderboard[e].player_id : e \in DOMAIN LOBBIES[c].leaderboard}
           : c \in DOMAIN LOBBIES}

InitWorld(w) ==
    /\ LOBBIES = w.L
    /\ RECENTLY_REMOVED_LOBBIES = w.R
    /\ current_state = w.cur
    /\ last_purge_time = w.lp
    /\ persisted = w.P

Init ==
    /\ \E word \in Secrets, dd_index \in DailyDoubleDraws : InitWorld(Startup(word, dd_index))
    /\ now = StartTime
    /\ resp = NoReq
    /\ threads = NoThreads
    /\ call = NoCall
    /\ REQUEST_TIMES = EmptyDict /\ admitted = EmptyDict

(* POST /lobby *)
LobbyCreate ==
    /\ LobbyCode \notin DOMAIN LOBBIES
    /\ \E word \in Secrets, dd_index \in DailyDoubleDraws, create_ok \in BOOLEAN :
          LET r == lobby_create(World, LobbyCode, HostToken, now, word, dd_index, create_ok)
          IN  /\ SetWorld(r.w)
              /\ resp' = Req("create", LobbyCode, NoEmoji, NoToken, "", <<>>, r)
    /\ UNCHANGED <<now, threads, call, REQUEST_TIMES, admitted>>

(* POST /emoji and POST /lobby/<code>/emoji *)
EmojiOf(codes, bases, tokens, ips, secrets) ==
    /\ \E code \in codes, base \in bases, pid \in tokens, ip \in ips,
          word \in secrets, dd_index \in DailyDoubleDraws :
          /\ pid = NoToken => FreshToken \notin KnownTokens
          /\ LET rq == [h |-> "emoji", emoji |-> base, player_id |-> pid, ip |-> ip,
                        t |-> now, fresh |-> FreshToken]
                 r == Route(World, code, now, word, dd_index, rq)
             IN  /\ \A c \in DOMAIN r.w.L : Cardinality(DOMAIN r.w.L[c].leaderboard) <= MaxPlayers
                 /\ SetWorld(r.w)
                 /\ resp' = Req("emoji", code, base, pid, ip, <<>>, r)
    /\ UNCHANGED <<now, threads, call, REQUEST_TIMES, admitted>>

(* POST /guess and POST /lobby/<code>/guess, the request processed alone *)
GuessOf(codes, requests, admissions, secrets) ==
    /\ \E code \in codes, rq \in requests, adm \in admissions,
          word \in secrets, dd_index \in DailyDoubleDraws :
          LET g == guess_word(World, code = DEFAULT_LOBBY, code, rq[1], rq[2], rq[3], rq[4],
                              adm[1], adm[2], now, word, dd_index)
          IN  /\ SetWorld(g.w)
              /\ resp' = [op |-> "guess", code |-> code, emoji |-> rq[2], player_id |-> rq[3],
                          ip |-> rq[4], arg |-> rq[1], status |-> g.th.status,
                          out |-> <<ToString(g.th.points_delta),
                                    IF adm[1] /\ (adm[2] \/ rq[3] = NoToken)
                                    THEN "admitted" ELSE "throttled">>]
    /\ UNCHANGED <<now, threads, call, REQUEST_TIMES, admitted>>

(* POST /lobby/<code>/reset *)
ResetOf(tokens, secrets) ==
    /\ \E token \in tokens, word \in secrets, dd_index \in DailyDoubleDraws :
          LET r == lobby_reset(World, LobbyCode, token, now, word, dd_index)
          IN  /\ SetWorld(r.w)
              /\ resp' = Req("reset", LobbyCode, NoEmoji, NoToken, "", <<token>>, r)
    /\ UNCHANGED <<now, threads, call, REQUEST_TIMES, admitted>>

(* POST /hint *)
HintOf(emojis, tokens, ips, cols) ==
    /\ \E emoji \in emojis, pid \in tokens, ip \in ips, col \in cols :
          LET r == select_hint(World, emoji, pid, col, ip)
          IN  /\ SetWorld(r.w)
              /\ resp' = Req("hint", DEFAULT_LOBBY, emoji, pid, ip, <<ToString(col)>>, r)
    /\ UNCHANGED <<now, threads, call, REQUEST_TIMES, admitted>>

(* POST /chat and POST /lobby/<code>/chat *)
ChatOf(codes, lens, emojis, tokens, ips, secrets) ==
    /\ \E code \in codes, text_len \in lens, emoji \in emojis, pid \in tokens, ip \in ips,
          word \in secrets, dd_index \in DailyDoubleDraws :
          /\ code \in DOMAIN LOBBIES => Len(LOBBIES[code].chat_messages) < MaxChat
          /\ LET rq == [h |-> "chat", text_len |-> text_len, emoji |-> emoji,
                        player_id |-> pid, ip |-> ip, t |-> now]
                 r == Route(World, code, now, word, dd_index, rq)
             IN  /\ SetWorld(r.w)
                 /\ resp' = Req("chat", code, emoji, pid, ip, <<ToString(text_len)>>, r)
    /\ UNCHANGED <<now, threads, call, REQUEST_TIMES, admitted>>

(* POST /lobby/<code>/leave *)
LeaveOf(emojis, tokens, ips, secrets) ==
    /\ \E emoji \in emojis, pid \in tokens, ip \in ips,
          word \in secrets, dd_index \in DailyDoubleDraws :
          LET rq == [h |-> "leave", emoji |-> emoji, player_id |-> pid, ip |-> ip, t |-> now]
              r == with_lobby(World, LobbyCode, now, word, dd_index, rq)
          IN  /\ SetWorld(r.w)
              /\ resp' = Req("leave", LobbyCode, emoji, pid, ip, <<>>, r)
    /\ UNCHANGED <<now, threads, call, REQUEST_TIMES, admitted>>

(* POST /lobby/<code>/kick *)
KickOf(emojis, tokens, secrets) ==
    /\ \E emoji \in emojis, token \in tokens,
          word \in secrets, dd_index \in DailyDoubleDraws :
          LET rq == [h |-> "kick", emoji |-> emoji, token |-> token, t |-> now]
              r == with_lobby(World, LobbyCode, now, word, dd_index, rq)
          IN  /\ SetWorld(r.w)
              /\ resp' = Req("kick", LobbyCode, emoji, NoToken, "", <<token>>, r)
    /\ UNCHANGED <<now, threads, call, REQUEST_TIMES, admitted>>

A == <<"A">>
B == <<"B">>

(* The clients of one run of Spec are of one kind: clients of the legacy     *)
(* routes, which play on DEFAULT as long as no lobby was created, or clients  *)
(* of the lobby routes, which arrive on a server whose DEFAULT lobby nobody   *)
(* has used.                                                                  *)
LegacyRun == DOMAIN LOBBIES = {DEFAULT_LOBBY} /\ DOMAIN RECENTLY_REMOVED_LOBBIES = {}

LobbyRun ==
    /\ DOMAIN LOBBIES[DEFAULT_LOBBY].leaderboard = {}
    /\ LOBBIES[DEFAULT_LOBBY].phase = "waiting"

Create == LobbyRun /\ LobbyCreate

Emoji ==
    \/ LegacyRun /\ EmojiOf({DEFAULT_LOBBY}, {A}, {T1}, {"ip1"}, Secrets)
    \/ LobbyRun /\ EmojiOf({LobbyCode}, {A}, {T1, X1}, IPs, Secrets)

Guess == LegacyRun /\ GuessOf({DEFAULT_LOBBY}, {carte} \X {A} \X {T1, T2, X1} \X IPs, Admissions, Secrets)

Hint == LegacyRun /\ HintOf({A}, {T1, T2, X1}, IPs, {0, WORD_LEN})

Chat == LobbyRun /\ ChatOf({LobbyCode}, {0, 2}, {A}, {T1, T2, X1}, IPs, Secrets)

LeaveLobby == LobbyRun /\ LeaveOf({A}, {T1, T2, X1}, IPs, Secrets)

Kick == LobbyRun /\ KickOf({A}, {HostToken, "None"}, Secrets)

Next == Create \/ Emoji \/ Guess \/ Hint \/ Chat \/ LeaveLobby \/ Kick

Spec == Init /\ [][Next]_vars

-----------------------------------------------------------------------------
(* SpecGame: one lobby, two registered players, guesses processed one at a   *)
(* time, resets by the host.  The run starts after the lobby was created,    *)
(* the players registered and the first k guesses of Opening were played.    *)

MaxRounds == 1

PlayerA == <<A, T1, "ip1">>
PlayerB == <<B, T2, "ip2">>

(* raw guess, emoji, token, address *)
Opening ==
    << <<<<"f", "u", "z", "z", "y">>>> \o PlayerA, <<<<"h", "a", "p", "p", "y">>>> \o PlayerB,
       <<<<"t", "a", "s", "t", "y">>>> \o PlayerA, <<<<"p", "a", "r", "t", "y">>>> \o PlayerB,
       <<earth>> \o PlayerA >>

(* lobby_create, then the two registrations *)
Registered(word, dd_index) ==
    LET w0 == lobby_create(Startup(word, dd_index), LobbyCode, HostToken, StartTime,
                           word, dd_index, TRUE).w
        HA == [h |-> "emoji", emoji |-> A, player_id |-> T1, ip |-> "ip1",
               t |-> StartTime, fresh |-> FreshToken]
        HB == [h |-> "emoji", emoji |-> B, player_id |-> T2, ip |-> "ip2",
               t |-> StartTime, fresh |-> FreshToken]
        w1 == with_lobby(w0, LobbyCode, StartTime, word, dd_index, HA).w
    IN  with_lobby(w1, LobbyCode, StartTime, word, dd_index, HB).w

RECURSIVE GameStart(_, _, _)
GameStart(word, dd_index, k) ==
    IF k = 0 THEN Registered(word, dd_index)
    ELSE guess_word(GameStart(word, dd_index, k - 1), FALSE, LobbyCode,
                    Opening[k][1], Opening[k][2], Opening[k][3], Opening[k][4],
                    TRUE, TRUE, StartTime, word, dd_index).w

InitGame ==
    /\ \E start \in {<<crate, 0>>, <<crate, MAX_ROWS - 2>>, <<abbey, 0>>} :
          InitWorld(GameStart(start[1], 3, start[2]))
    /\ now = StartTime
    /\ resp = NoReq
    /\ threads = NoThreads
    /\ call = NoCall
    /\ REQUEST_TIMES = EmptyDict /\ admitted = EmptyDict

GameRequests ==
    {<<earth>> \o PlayerA, <<carte>> \o PlayerB, <<crate>> \o PlayerA,
     <<abbey>> \o PlayerA, <<bobby>> \o PlayerB,
     <<<<" ", "E", "a", "r", "t", "h">>>> \o PlayerB}

GameGuess ==
    \/ GuessOf({LobbyCode}, GameRequests, {<<TRUE, TRUE>>}, {crate})
    \/ GuessOf({LobbyCode}, {<<crate>> \o PlayerA}, {<<FALSE, TRUE>>, <<TRUE, FALSE>>}, {crate})

GameReset ==
    /\ Len(LOBBIES[LobbyCode].past_games) < MaxRounds
    /\ ResetOf({HostToken, "None"}, {crate})

NextGame == GameGuess \/ GameReset

SpecGame == InitGame /\ [][NextGame]_vars

-----------------------------------------------------------------------------
(* SpecConc: two request threads inside guess_word at the same time, as the  *)
(* threaded server runs them: no lock is taken, so the threads interleave    *)
(* between any two statement groups.  threads.start is the world the two     *)
(* requests arrived in, kept to compare with the one-at-a-time outcomes.     *)

NThreads == 2

ConcRequests == {<<carte>> \o PlayerA, <<carte>> \o PlayerB, <<crate>> \o PlayerB}

ThreadOf(rq) == NewThread(FALSE, LobbyCode, rq[1], rq[2], rq[3], rq[4], TRUE, TRUE)

InitConc ==
    /\ \E k \in {0, MAX_ROWS - 1} : InitWorld(GameStart(crate, 3, k))
    /\ now = StartTime
    /\ resp = NoReq
    /\ \E rqs \in [1..NThreads -> ConcRequests] :
          threads = [start |-> World, th |-> [i \in 1..NThreads |-> ThreadOf(rqs[i])]]
    /\ call = NoCall
    /\ REQUEST_TIMES = EmptyDict /\ admitted = EmptyDict

(* one thread executes its next statement group *)
ThreadStep ==
    /\ \E i \in 1..NThreads :
          /\ threads.th[i].pc # "done"
          /\ LET n == GuessStep(World, threads.th[i], now, crate, 3)
             IN  /\ SetWorld(n.w)
                 /\ threads' = [threads EXCEPT !.th[i] = n.th]
    /\ UNCHANGED <<now, resp, call, REQUEST_TIMES, admitted>>

NextConc == ThreadStep

SpecConc == InitConc /\ [][NextConc]_vars

-----------------------------------------------------------------------------
(* SpecPure: calls of result_for_guess on every pair of 5-letter strings     *)
(* over the first AlphabetSize letters                                        *)

AlphabetSize == 3

Letters == {<<"a", "b", "c", "d">>[k] : k \in 1..AlphabetSize}

Strings5 == [Pos -> Letters]

InitPure ==
    /\ InitWorld(Startup(crate, 3))
    /\ now = StartTime
    /\ resp = NoReq
    /\ threads = NoThreads
    /\ call \in [pc : {"called"}, guess : Strings5, target : Strings5, result : {<<>>}]
    /\ REQUEST_TIMES = EmptyDict /\ admitted = EmptyDict

ResultForGuess ==
    /\ call.pc = "called"
    /\ call' = [call EXCEPT !.pc = "returned", !.result = result_for_guess(call.guess, call.target)]
    /\ UNCHANGED <<LOBBIES, RECENTLY_REMOVED_LOBBIES, current_state, last_purge_time,
                   persisted, now, resp, threads, REQUEST_TIMES, admitted>>

NextPure == ResultForGuess

SpecPure == InitPure /\ [][NextPure]_vars

(* the number of positions of word that hold letter *)
Occurrences(word, letter) == Cardinality({i \in Pos : word[i] = letter})

(* the two-pass verdict in closed form: exact matches are correct; another   *)
(* position is present when fewer unmatched copies of its letter stand to    *)
(* its left in g than s holds outside the exact matches                      *)
TwoPassReference(g, s) ==
    [i \in Pos |->
        IF g[i] = s[i] THEN "correct"
        ELSE IF Cardinality({j \in 1..(i - 1) : g[j] = g[i] /\ g[j] # s[j]})
                  < Cardinality({j \in Pos : s[j] = g[i] /\ g[j] # s[j]})
             THEN "present"
             ELSE "absent"]

Min(a, b) == IF a <= b THEN a ELSE b

(* C4: result_for_guess(g, s) is the two-pass reference; g = s gives all     *)
(* correct; for each letter the correct and present positions together      *)
(* number min(occurrences in g, occurrences in s)                            *)
C4_TwoPassVerdict ==
    call # NoCall /\ call.pc = "returned" =>
        /\ call.result = TwoPassReference(call.guess, call.target)
        /\ (call.guess = call.target => \A i \in Pos : call.result[i] = "correct")
        /\ \A letter \in Letters :
              Cardinality({i \in Pos : call.guess[i] = letter
                                       /\ call.result[i] \in {"correct", "present"}})
                = Min(Occurrences(call.guess, letter), Occurrences(call.target, letter))

(* a returned call whose guess repeats a letter more often than the secret   *)
(* holds it: one copy present, a later copy absent                           *)
C4_Witness ==
    /\ call # NoCall
    /\ call.pc = "returned"
    /\ \E i, j \in Pos : /\ i < j
                         /\ call.guess[i] = call.guess[j]
                         /\ call.result[i] = "present"
                         /\ call.result[j] = "absent"

-----------------------------------------------------------------------------
(* Properties of the rounds played in SpecGame *)

(* the half points paid for letter so far in the round of s *)
PaidFor(s, letter) == Get(s.paid, letter, 0)

RECURSIVE SumOver(_, _)
SumOver(f, S) ==
    IF S = {} THEN 0
    ELSE LET x == CHOOSE y \in S : TRUE IN f[x] + SumOver(f, S \ {x})

(* the half points the letters earned between s and s2 *)
LetterPoints(s, s2) ==
    SumOver([letter \in DOMAIN s2.paid |-> PaidFor(s2, letter) - PaidFor(s, letter)],
            DOMAIN s2.paid)

Scores(s) == [e \in DOMAIN s.leaderboard |-> s.leaderboard[e].score]

(* the step is a guess request to the lobby of SpecGame *)
GuessRequest == resp'.op = "guess" /\ resp'.code = LobbyCode

TextOf(rq) == NormalizeGuess(rq.arg)

InGuessList(s, text) == \E k \in 1..Len(s.guesses) : s.guesses[k].guess = text

RoundUntouched(s, s2) ==
    /\ s2.guesses = s.guesses
    /\ s2.found_greens = s.found_greens
    /\ s2.found_yellows = s.found_yellows
    /\ Scores(s2) = Scores(s)

(* C2: guesses processed one at a time: a letter of the discovered-green set *)
(* earns nothing in any later guess of the round and stays green; the score  *)
(* an accepted guess adds is the sum of its letter payments plus the win     *)
(* bonus, the loss penalty or the no-points penalty                          *)
C2_GreenLetterNeverPaidAgain ==
    [][GuessRequest =>
         LET s == LOBBIES[LobbyCode]
             s2 == LOBBIES'[LobbyCode]
             e == resp'.emoji
             letters == LetterPoints(s, s2)
         IN  /\ \A letter \in s.found_greens :
                   /\ PaidFor(s2, letter) = PaidFor(s, letter)
                   /\ letter \in s2.found_greens
             /\ resp'.status = 200 =>
                   s2.leaderboard[e].score - s.leaderboard[e].score =
                       letters + (IF TextOf(resp') = s.target_word THEN 2 * WIN_BONUS
                                  ELSE IF Len(s2.guesses) = MAX_ROWS THEN -(2 * LOSS_PENALTY)
                                  ELSE IF letters = 0 THEN -(2 * NO_POINTS_PENALTY)
                                  ELSE 0)]_vars

(* an accepted guess with a correct letter that an earlier guess of another  *)
(* player had already turned green, paid once at full value                  *)
C2_Witness ==
    /\ resp.op = "guess" /\ resp.status = 200
    /\ LET s == LOBBIES[LobbyCode]
           n == Len(s.guesses)
       IN  /\ n >= 2
           /\ \E k \in 1..(n - 1), i \in Pos :
                 /\ s.guesses[k].result[i] = "correct"
                 /\ s.guesses[n].result[i] = "correct"
                 /\ s.guesses[k].emoji # s.guesses[n].emoji
                 /\ PaidFor(s, s.guesses[n].guess[i]) = 2 * ScrabbleScore(s.guesses[n].guess[i])

(* C3: after an accepted guess, every letter with a correct verdict has been *)
(* paid its full table value in the round, is in the discovered-green set    *)
(* and is not in the discovered-yellow set                                   *)
C3_CorrectLetterFullyPaid ==
    resp.op = "guess" /\ resp.code = LobbyCode /\ resp.status = 200 =>
        LET s == LOBBIES[LobbyCode]
            entry == s.guesses[Len(s.guesses)]
        IN  \A i \in Pos :
               entry.result[i] = "correct" =>
                  /\ PaidFor(s, entry.guess[i]) = 2 * ScrabbleScore(entry.guess[i])
                  /\ entry.guess[i] \in s.found_greens
                  /\ entry.guess[i] \notin s.found_yellows

(* a guess of the round equals the secret, or the rows are used up *)
RoundEnded(s) == InGuessList(s, s.target_word) \/ Len(s.guesses) >= MAX_ROWS

(* entry k obeys what the entries before it revealed *)
ObeysEarlierGuesses(s, k) ==
    \A j \in 1..(k - 1), i \in Pos :
       /\ s.guesses[j].result[i] = "correct" => s.guesses[k].guess[i] = s.guesses[j].guess[i]
       /\ s.guesses[j].result[i] \in {"correct", "present"} =>
             InList(s.guesses[k].guess, s.guesses[j].guess[i])

(* C6: guesses processed one at a time: a guess whose text is already in the *)
(* round's guess list is not accepted and leaves the guess list, the         *)
(* discovery sets and every score unchanged; in a round in progress an       *)
(* admitted one is answered 400 (invalid input); no word is twice in a list  *)
C6_DuplicateGuessRejected ==
    /\ [][GuessRequest /\ InGuessList(LOBBIES[LobbyCode], TextOf(resp')) =>
             /\ resp'.status # 200
             /\ RoundUntouched(LOBBIES[LobbyCode], LOBBIES'[LobbyCode])
             /\ (resp'.status # 429 /\ ~RoundEnded(LOBBIES[LobbyCode]) => resp'.status = 400)]_vars
    /\ [](\A j, k \in 1..Len(LOBBIES[LobbyCode].guesses) :
             j # k => LOBBIES[LobbyCode].guesses[j].guess # LOBBIES[LobbyCode].guesses[k].guess)

(* a word of the list sent again, in another spelling and by another player, *)
(* while the round is in progress: answered 400                              *)
C6_Witness ==
    /\ resp.op = "guess" /\ resp.status = 400
    /\ resp.arg # TextOf(resp)
    /\ ~RoundEnded(LOBBIES[LobbyCode])
    /\ \E k \in 1..Len(LOBBIES[LobbyCode].guesses) :
          /\ LOBBIES[LobbyCode].guesses[k].guess = TextOf(resp)
          /\ LOBBIES[LobbyCode].guesses[k].emoji # resp.emoji

C8_HardMode ==
    /\ [](\A k \in 1..Len(LOBBIES[LobbyCode].guesses) :
             ObeysEarlierGuesses(LOBBIES[LobbyCode], k))
    /\ [][/\ GuessRequest
          /\ resp'.status # 429
          /\ ~RoundEnded(LOBBIES[LobbyCode])
          /\ TextOf(resp') \in WORDS
          /\ ~InGuessList(LOBBIES[LobbyCode], TextOf(resp'))
          /\ LET s == LOBBIES[LobbyCode]
                 tried == [s EXCEPT !.guesses = Append(@, [guess |-> TextOf(resp')])]
             IN  ~ObeysEarlierGuesses(tried, Len(tried.guesses))
          => /\ resp'.status = 400
             /\ RoundUntouched(LOBBIES[LobbyCode], LOBBIES'[LobbyCode])]_vars

(* a listed word that drops a revealed letter, answered 400 *)
C8_Witness ==
    /\ resp.op = "guess" /\ resp.status = 400
    /\ TextOf(resp) \in WORDS
    /\ ~InGuessList(LOBBIES[LobbyCode], TextOf(resp))
    /\ ~RoundEnded(LOBBIES[LobbyCode])
    /\ \E k \in 1..Len(LOBBIES[LobbyCode].guesses), i \in Pos :
          /\ LOBBIES[LobbyCode].guesses[k].result[i] = "present"
          /\ ~InList(TextOf(resp), LOBBIES[LobbyCode].guesses[k].guess[i])

-----------------------------------------------------------------------------
(* Properties of the identities in Spec *)

(* the request of the step gets as far as the identity check of its handler: *)
(* guess_word first checks the limiters, the end of the round and the word   *)
(* (lines 703-748), chat the text (lines 974-978)                            *)
ReachesIdentityCheck(s, rq) ==
    CASE rq.op = "guess" -> /\ rq.status # 429
                            /\ ~s.is_over
                            /\ TextOf(rq) \in WORDS
                            /\ ~InGuessList(s, TextOf(rq))
      [] rq.op = "chat" -> rq.arg # <<"0">>
      [] rq.op \in {"hint", "leave"} -> TRUE
      [] OTHER -> FALSE

IsHex32(token) == token.len = 32 /\ token.chars \subseteq HexChars

C10_ReverseIndicesResolve ==
    \A c \in DOMAIN LOBBIES :
       /\ \A ip \in DOMAIN LOBBIES[c].ip_to_emoji :
             LOBBIES[c].ip_to_emoji[ip] \in DOMAIN LOBBIES[c].leaderboard
       /\ \A pid \in DOMAIN LOBBIES[c].player_map :
             LOBBIES[c].player_map[pid] \in DOMAIN LOBBIES[c].leaderboard

-----------------------------------------------------------------------------
(* Properties of the concurrent guesses of SpecConc *)

AllDone == \A i \in 1..NThreads : threads.th[i].pc = "done"

(* what a lobby shows of its round *)
Observed(w) ==
    LET s == w.L[LobbyCode]
    IN  [guesses |-> [k \in 1..Len(s.guesses) |-> <<s.guesses[k].guess, s.guesses[k].emoji>>],
         found_greens |-> s.found_greens,
         found_yellows |-> s.found_yellows,
         scores |-> Scores(s),
         winner_emoji |-> s.winner_emoji,
         phase |-> s.phase]

(* the requests of threads i and j processed one at a time, i first *)
OneAtATime(i, j) ==
    LET ti == ThreadOf(<<threads.th[i].raw, threads.th[i].emoji, threads.th[i].player_id,
                         threads.th[i].ip>>)
        tj == ThreadOf(<<threads.th[j].raw, threads.th[j].emoji, threads.th[j].player_id,
                         threads.th[j].ip>>)
    IN  RunGuess(RunGuess(threads.start, ti, now, crate, 3).w, tj, now, crate, 3).w

(* C1: when the guess requests have all returned, the guess list, the        *)
(* discovery sets, the scores, the winner and the phase of the lobby are     *)
(* those of the same requests processed one at a time in some order          *)
C1_GuessesLinearizable ==
    AllDone => \E i, j \in 1..NThreads : i # j /\ Observed(World) = Observed(OneAtATime(i, j))

(* C5: a guess list never holds more than MAX_ROWS guesses, and once the     *)
(* requests have returned a list of MAX_ROWS guesses belongs to a finished   *)
(* round, lost unless its last guess is the secret                           *)
C5_AtMostMaxRows ==
    \A c \in DOMAIN LOBBIES :
       /\ Len(LOBBIES[c].guesses) <= MAX_ROWS
       /\ AllDone /\ Len(LOBBIES[c].guesses) = MAX_ROWS =>
             /\ LOBBIES[c].is_over
             /\ LOBBIES[c].phase = "finished"
             /\ LOBBIES[c].guesses[MAX_ROWS].guess # LOBBIES[c].target_word =>
                   LOBBIES[c].winner_emoji = NoEmoji

-----------------------------------------------------------------------------
(* SpecReg: two registration requests in flight.  The body of set_emoji      *)
(* (lines 623-676) runs under emoji_lock and is one step; _with_lobby swaps  *)
(* and restores the global current_state outside the lock (lines 324-329).   *)
(* A request to the legacy route POST /emoji has code DEFAULT and calls the  *)
(* handler directly.                                                         *)

OtherCode == "BBBBBB"

(* the requests: <<code, emoji, player_id, ip>> *)
RegRequests ==
    <<{DEFAULT_LOBBY, LobbyCode, OtherCode} \X {A} \X {T1} \X {"ip1"},
      {DEFAULT_LOBBY, LobbyCode, OtherCode} \X {A, B} \X {T2} \X {"ip2"}>>

RegThread(rq) ==
    [pc |-> IF rq[1] = DEFAULT_LOBBY THEN "body" ELSE "enter",
     code |-> rq[1], emoji |-> rq[2], player_id |-> rq[3], ip |-> rq[4],
     prev |-> DEFAULT_LOBBY, status |-> 0, out |-> NoEmoji]

(* one step of a registration thread *)
EmojiStep(w, th, t, word, dd_index) ==
    CASE th.pc = "enter" ->
            LET g == get_lobby(purge_lobbies(w, t), th.code, t, word, dd_index)
            IN  IF ~g.found
                THEN [w |-> g.w, th |-> [th EXCEPT !.status = 404, !.pc = "done"]]
                ELSE [w |-> [g.w EXCEPT !.cur = th.code],
                      th |-> [th EXCEPT !.prev = w.cur, !.pc = "body"]]
      [] th.pc = "body" ->
            LET r == set_emoji(w, th.emoji, th.player_id, th.ip, t, FreshToken)
            IN  [w |-> r.w,
                 th |-> [th EXCEPT !.status = r.status, !.out = r.out,
                                   !.pc = IF th.code = DEFAULT_LOBBY THEN "done" ELSE "exit"]]
      [] th.pc = "exit" -> G_exit(w, th)
      [] OTHER -> [w |-> w, th |-> th]

InitReg ==
    /\ InitWorld(Startup(crate, 3))
    /\ now = StartTime
    /\ resp = NoReq
    /\ \E r1 \in RegRequests[1], r2 \in RegRequests[2] :
          threads = [start |-> World, th |-> <<RegThread(r1), RegThread(r2)>>]
    /\ call = NoCall
    /\ REQUEST_TIMES = EmptyDict /\ admitted = EmptyDict

RegStep ==
    /\ \E i \in DOMAIN threads.th :
          /\ threads.th[i].pc # "done"
          /\ LET n == EmojiStep(World, threads.th[i], now, crate, 3)
             IN  /\ SetWorld(n.w)
                 /\ threads' = [threads EXCEPT !.th[i] = n.th]
    /\ UNCHANGED <<now, resp, call, REQUEST_TIMES, admitted>>

SpecReg == InitReg /\ [][RegStep]_vars

BothReturned == \A i \in DOMAIN threads.th : threads.th[i].pc = "done"

(* the caller of thread i holds the key it was answered, in the lobby it named *)
BoundToOwnKey(i) ==
    LET th == threads.th[i]
        s == LOBBIES[th.code]
    IN  /\ th.status = 200
        /\ th.out \in DOMAIN s.leaderboard
        /\ s.leaderboard[th.out].player_id = th.player_id
        /\ s.leaderboard[th.out].ip = th.ip
        /\ th.player_id \in DOMAIN s.player_map
        /\ s.player_map[th.player_id] = th.out

(* C11: when two registrations of different players for the same emoji in    *)
(* the same lobby have both returned, the callers hold two different keys of *)
(* that lobby's leaderboard, each entry carries its caller's token and       *)
(* address, and the token index maps each token to its caller's key          *)
C11_ContestedEmojiTwoKeys ==
    /\ BothReturned
    /\ threads.th[1].code = threads.th[2].code
    /\ threads.th[1].emoji = threads.th[2].emoji
    => /\ threads.th[1].out # threads.th[2].out
       /\ BoundToOwnKey(1)
       /\ BoundToOwnKey(2)

(* C20: a step of a request changes no lobby but the one named in its path   *)
C20_OnlyTheLobbyInThePath ==
    [][\A i \in DOMAIN threads.th :
          threads'.th[i] # threads.th[i] =>
             \A c \in (DOMAIN LOBBIES) \ {threads.th[i].code} :
                c \in DOMAIN LOBBIES' /\ LOBBIES'[c] = LOBBIES[c]]_vars

-----------------------------------------------------------------------------
(* SpecVariant: a lobby in which up to MaxHolders - 1 players registered the *)
(* same emoji one after the other and up to MaxLeavers of them left again;   *)
(* one more player then registers that emoji.                                *)

MaxHolders == 11

MaxLeavers == 2

(* the k-th player: its token and its address *)
Holder(k) == [token |-> [id |-> ToString(k), len |-> 32, chars |-> {"0", "a"}], ip |-> ToString(k)]

(* the world after players 1..k registered emoji A in lobby LobbyCode *)
RECURSIVE Joined(_)
Joined(k) ==
    IF k = 0 THEN Startup(crate, 3)
    ELSE with_lobby(Joined(k - 1), LobbyCode, StartTime, crate, 3,
                    [h |-> "emoji", emoji |-> A, player_id |-> Holder(k).token,
                     ip |-> Holder(k).ip, t |-> StartTime, fresh |-> FreshToken]).w

(* the world after the players of S left the lobby *)
RECURSIVE Departed(_, _)
Departed(w, S) ==
    IF S = {} THEN w
    ELSE LET k == CHOOSE x \in S : TRUE
             emoji == w.L[LobbyCode].player_map[Holder(k).token]
         IN  Departed(with_lobby(w, LobbyCode, StartTime, crate, 3,
                                 [h |-> "leave", emoji |-> emoji, player_id |-> Holder(k).token,
                                  ip |-> Holder(k).ip, t |-> StartTime]).w,
                      S \ {k})

InitVariant ==
    /\ \E k \in 1..(MaxHolders - 1) :
          \E S \in {X \in SUBSET (1..k) : Cardinality(X) <= MaxLeavers /\ Cardinality(X) < k} :
             InitWorld(Departed(Joined(k), S))
    /\ now = StartTime
    /\ resp = NoReq
    /\ threads = NoThreads
    /\ call = NoCall
    /\ REQUEST_TIMES = EmptyDict /\ admitted = EmptyDict

(* POST /lobby/<code>/emoji by a player who is not in the lobby *)
RegisterVariant ==
    /\ resp = NoReq
    /\ LET r == with_lobby(World, LobbyCode, now, crate, 3,
                           [h |-> "emoji", emoji |-> A, player_id |-> T2, ip |-> "ip2",
                            t |-> now, fresh |-> FreshToken])
       IN  /\ SetWorld(r.w)
           /\ resp' = Req("emoji", LobbyCode, A, T2, "ip2", <<>>, r)
    /\ UNCHANGED <<now, threads, call, REQUEST_TIMES, admitted>>

SpecVariant == InitVariant /\ [][RegisterVariant]_vars

(* the n-th name of the fixed order: base, base-red, ..., base-cyan, base-9, ... *)
VariantName(base, n) ==
    IF n = 0 THEN base
    ELSE IF n <= 8
         THEN base \o <<"-", <<"red", "blue", "green", "yellow", "purple", "orange", "pink", "cyan">>[n]>>
         ELSE base \o <<"-", ToString(n)>>

(* the first name of the order that is not in keys *)
FirstFreeName(base, keys) ==
    LET n == CHOOSE i \in 0..Cardinality(keys) :
                 /\ VariantName(base, i) \notin keys
                 /\ \A j \in 0..(i - 1) : VariantName(base, j) \in keys
    IN  VariantName(base, n)

-----------------------------------------------------------------------------
(* SpecLife: the life of a lobby with a running clock.  The clock jumps      *)
(* between the instants at which the removal cooldown and the idle limit     *)
(* change their verdict.                                                     *)

(* time.time() has moved on, to one of the instants at which the cooldown   *)
(* and the idle limit are about to end, end, or have ended                  *)
Tick ==
    /\ \E d \in {REMOVAL_COOLDOWN - 1, REMOVAL_COOLDOWN, LOBBY_TTL, LOBBY_TTL + 1} :
          StartTime + d > now /\ now' = StartTime + d
    /\ UNCHANGED <<LOBBIES, RECENTLY_REMOVED_LOBBIES, current_state, last_purge_time,
                   persisted, resp, threads, call, REQUEST_TIMES, admitted>>

(* GET /lobby/<code>/state *)
LobbyState ==
    /\ LET r == with_lobby(World, LobbyCode, now, crate, 3, [h |-> "state"])
       IN  /\ SetWorld(r.w)
           /\ resp' = Req("state", LobbyCode, NoEmoji, NoToken, "", <<>>, r)
    /\ UNCHANGED <<now, threads, call, REQUEST_TIMES, admitted>>

(* POST /internal/purge, and the background purge loop *)
cleanup_lobbies ==
    /\ SetWorld(force_purge_lobbies(World, now))
    /\ resp' = Req("purge", DEFAULT_LOBBY, NoEmoji, NoToken, "", <<>>, Reply(World, 200, <<>>))
    /\ UNCHANGED <<now, threads, call, REQUEST_TIMES, admitted>>

(* leave_lobby running while current_state is the default lobby *)
LeaveDefault ==
    /\ LegacyRun
    /\ LET r == func(World, [h |-> "leave", emoji |-> A, player_id |-> T1, ip |-> "ip1", t |-> now])
       IN  /\ SetWorld(r.w)
           /\ resp' = Req("leave", DEFAULT_LOBBY, A, T1, "ip1", <<>>, r)
    /\ UNCHANGED <<now, threads, call, REQUEST_TIMES, admitted>>

(* POST /lobby refused by the creation limiter: only the purge it starts with *)
(* has run, whether or not the code is registered                            *)
CreateRefused ==
    /\ LobbyRun
    /\ LET r == lobby_create(World, LobbyCode, HostToken, now, crate, 3, FALSE)
       IN  /\ SetWorld(r.w)
           /\ resp' = Req("create", LobbyCode, NoEmoji, NoToken, "", <<>>, r)
    /\ UNCHANGED <<now, threads, call, REQUEST_TIMES, admitted>>

SpecLife ==
    Init /\ [][\/ Tick
               \/ LobbyRun /\ LobbyCreate
               \/ CreateRefused
               \/ LobbyRun /\ LobbyState
               \/ LobbyRun /\ EmojiOf({LobbyCode}, {A}, {T1}, {"ip1"}, {crate})
               \/ LobbyRun /\ EmojiOf({LobbyCode}, {B}, {T2}, {"ip2"}, {crate})
               \/ LegacyRun /\ EmojiOf({DEFAULT_LOBBY}, {A}, {T1}, {"ip1"}, {crate})
               \/ LobbyRun /\ GuessOf({LobbyCode}, {<<crate>> \o PlayerA}, {<<TRUE, TRUE>>}, {crate})
               \/ LobbyRun /\ LeaveOf({A}, {T1}, {"ip1"}, {crate})
               \/ LobbyRun /\ KickOf({A}, {HostToken}, {crate})
               \/ LeaveDefault
               \/ cleanup_lobbies]_vars


(* ---- lobby lifecycle: removal cooldown and purge ---- *)

LookupOps == {"state", "emoji", "guess", "leave", "kick"}

(* a step in which a request was handled: the clock stands meanwhile *)
Served == now' = now

(* the lobby a request routed to `code` works on: the one get_lobby hands   *)
(* to the handler after the purge the request starts with                   *)
LobbySeen(code) ==
    IF code = DEFAULT_LOBBY THEN LOBBIES[code]
    ELSE get_lobby(purge_lobbies(World, now), code, now, crate, 3).w.L[code]

(* a step that did nothing but run the purge, and ran it for real *)
PurgeRan ==
    /\ Served
    /\ \/ resp'.op = "purge"
       \/ /\ resp'.op = "create" /\ resp'.status = 429
          /\ now - last_purge_time >= PURGE_COOLDOWN

Idle(c) == now - LOBBIES[c].last_activity > LOBBY_TTL

(* C13: a lookup of a removed lobby's code made less than REMOVAL_COOLDOWN  *)
(* seconds after the removal is answered 404 and registers nothing; one     *)
(* made at or after that instant is served and registers the code again     *)
C13_RemovedLobbyCooldown ==
    [][ \A c \in {LobbyCode} :
          (/\ Served /\ resp'.op \in LookupOps /\ resp'.code = c
           /\ c \notin DOMAIN LOBBIES /\ c \in DOMAIN RECENTLY_REMOVED_LOBBIES)
          => IF now - RECENTLY_REMOVED_LOBBIES[c] < REMOVAL_COOLDOWN
             THEN /\ resp'.status = 404
                  /\ c \notin DOMAIN LOBBIES'
                  /\ RECENTLY_REMOVED_LOBBIES' = RECENTLY_REMOVED_LOBBIES
             ELSE /\ resp'.status # 404
                  /\ resp'.op \in {"state", "emoji", "guess"} => c \in DOMAIN LOBBIES'
      ]_vars

C13_Witness ==
    /\ resp.op = "state" /\ resp.status = 200
    /\ LobbyCode \in DOMAIN LOBBIES
    /\ LobbyCode \in DOMAIN RECENTLY_REMOVED_LOBBIES
    /\ now - RECENTLY_REMOVED_LOBBIES[LobbyCode] = REMOVAL_COOLDOWN

(* C14: a kick or leave that takes the last entry out of a non-default      *)
(* lobby leaves the lobby unregistered with a cooldown record of that       *)
(* instant; with other entries left the lobby stays registered; the default *)
(* lobby is registered at all times                                         *)
C14_LastPlayerEvictsLobby ==
    /\ [](DEFAULT_LOBBY \in DOMAIN LOBBIES)
    /\ [][ (Served /\ resp'.op \in {"leave", "kick"} /\ resp'.status = 200)
           => LET c == resp'.code
                  before == DOMAIN LobbySeen(c).leaderboard
              IN  /\ resp'.emoji \in before
                  /\ IF c # DEFAULT_LOBBY /\ before = {resp'.emoji}
                     THEN /\ c \notin DOMAIN LOBBIES'
                          /\ c \in DOMAIN RECENTLY_REMOVED_LOBBIES'
                          /\ RECENTLY_REMOVED_LOBBIES'[c] = now
                     ELSE /\ c \in DOMAIN LOBBIES'
                          /\ DOMAIN LOBBIES'[c].leaderboard = before \ {resp'.emoji}
         ]_vars

C14_Witness ==
    /\ resp.op = "kick" /\ resp.status = 200 /\ resp.code = LobbyCode
    /\ LobbyCode \notin DOMAIN LOBBIES
    /\ LobbyCode \in DOMAIN RECENTLY_REMOVED_LOBBIES
    /\ RECENTLY_REMOVED_LOBBIES[LobbyCode] = now

(* C15: while the cooldown of a removed code runs, the code is not          *)
(* registered, whatever operation was asked for                             *)
C15_NoLobbyDuringCooldown ==
    \A c \in DOMAIN RECENTLY_REMOVED_LOBBIES :
        now - RECENTLY_REMOVED_LOBBIES[c] < REMOVAL_COOLDOWN => c \notin DOMAIN LOBBIES

C17_LobbyWithPlayersNeverPurged ==
    [][ PurgeRan
        => \A c \in DOMAIN LOBBIES :
              DOMAIN LOBBIES[c].leaderboard # {} => c \in DOMAIN LOBBIES'
      ]_vars


-----------------------------------------------------------------------------
(* The rate limiters.  check_api_rate_limit, check_guess_rate_limit and the  *)
(* head of lobby_create are the same statements over a dictionary, a limit   *)
(* and a window of their own; the statements are taken one at a time, and a  *)
(* call processed alone runs them to the end.                                *)

MaxOtherCalls == 2

LimiterKeys == {"ip1", "ip2"}

LimiterCallOf(key, t) == [pc |-> "setdefault", key |-> key, t |-> t, kept |-> <<>>, ok |-> FALSE]

(* faulty variant: a timestamp is kept until it is older than the window *)
LimiterStep_WindowInclusive(D, th, LIMIT, WINDOW) ==
    CASE th.pc = "setdefault" ->
            [D |-> IF th.key \in DOMAIN D THEN D ELSE Put(D, th.key, <<>>),
             th |-> [th EXCEPT !.pc = "filter"]]
      [] th.pc = "filter" ->
            [D |-> D,
             th |-> [th EXCEPT !.pc = "assign",
                               !.kept = SelectSeq(D[th.key], LAMBDA x : th.t - x <= WINDOW)]]
      [] th.pc = "assign" ->
            [D |-> [D EXCEPT ![th.key] = th.kept], th |-> [th EXCEPT !.pc = "check"]]
      [] th.pc = "check" ->
            IF Len(D[th.key]) >= LIMIT
            THEN [D |-> D, th |-> [th EXCEPT !.pc = "done", !.ok = FALSE]]
            ELSE [D |-> D, th |-> [th EXCEPT !.pc = "append"]]
      [] th.pc = "append" ->
            [D |-> [D EXCEPT ![th.key] = Append(@, th.t)],
             th |-> [th EXCEPT !.pc = "done", !.ok = TRUE]]

(* one statement of a limiter call th on the dictionary D *)
LimiterStep(D, th, LIMIT, WINDOW) ==
    CASE th.pc = "setdefault" ->          \* times = D.setdefault(key, [])
            [D |-> IF th.key \in DOMAIN D THEN D ELSE Put(D, th.key, <<>>),
             th |-> [th EXCEPT !.pc = "filter"]]
      [] th.pc = "filter" ->              \* [t for t in times if now - t < WINDOW]
            [D |-> D,
             th |-> [th EXCEPT !.pc = "assign",
                               !.kept = SelectSeq(D[th.key], LAMBDA x : th.t - x < WINDOW)]]
      [] th.pc = "assign" ->              \* times[:] = ...
            [D |-> [D EXCEPT ![th.key] = th.kept], th |-> [th EXCEPT !.pc = "check"]]
      [] th.pc = "check" ->               \* if len(times) >= LIMIT: return False
            IF Len(D[th.key]) >= LIMIT
            THEN [D |-> D, th |-> [th EXCEPT !.pc = "done", !.ok = FALSE]]
            ELSE [D |-> D, th |-> [th EXCEPT !.pc = "append"]]
      [] th.pc = "append" ->              \* times.append(now); return True
            [D |-> [D EXCEPT ![th.key] = Append(@, th.t)],
             th |-> [th EXCEPT !.pc = "done", !.ok = TRUE]]

(* a limiter call processed alone *)
RECURSIVE check_rate_limit(_, _, _, _)
check_rate_limit(D, th, LIMIT, WINDOW) ==
    IF th.pc = "done" THEN [D |-> D, ok |-> th.ok]
    ELSE LET n == LimiterStep(D, th, LIMIT, WINDOW)
         IN  check_rate_limit(n.D, n.th, LIMIT, WINDOW)

(* the log of admissions with one more admission of key at t *)
Admit(log, key, t) == Put(log, key, Append(Get(log, key, <<>>), t))

(* SpecRate: calls of the creation limiter, one at a time, while time passes *)
RateTick ==
    /\ \E d \in {1, LOBBY_CREATION_WINDOW - 1, LOBBY_CREATION_WINDOW, LOBBY_CREATION_WINDOW + 1} :
          StartTime + d > now /\ now' = StartTime + d
    /\ UNCHANGED <<LOBBIES, RECENTLY_REMOVED_LOBBIES, current_state, last_purge_time,
                   persisted, resp, threads, call, REQUEST_TIMES, admitted>>

LimiterCall ==
    /\ \E key \in LimiterKeys :
          /\ key # "ip1" => Len(Get(admitted, key, <<>>)) < MaxOtherCalls
          /\ LET r == check_rate_limit(REQUEST_TIMES, LimiterCallOf(key, now),
                                       LOBBY_CREATION_LIMIT, LOBBY_CREATION_WINDOW)
             IN  /\ REQUEST_TIMES' = r.D
                 /\ admitted' = IF r.ok THEN Admit(admitted, key, now) ELSE admitted
                 /\ resp' = Req("limit", DEFAULT_LOBBY, NoEmoji, NoToken, key, <<>>,
                                Reply(World, IF r.ok THEN 200 ELSE 429, <<>>))
    /\ UNCHANGED <<LOBBIES, RECENTLY_REMOVED_LOBBIES, current_state, last_purge_time,
                   persisted, now, threads, call>>

SpecRate ==
    /\ InitWorld(Startup(crate, 3)) /\ now = StartTime /\ resp = NoReq
    /\ threads = NoThreads /\ call = NoCall
    /\ REQUEST_TIMES = EmptyDict /\ admitted = EmptyDict
    /\ [][RateTick \/ LimiterCall]_vars

(* the admissions of key that lie in the window ending at t *)
InWindow(log, key, t) ==
    LET a == Get(log, key, <<>>)
    IN  {i \in 1..Len(a) : a[i] <= t /\ t - a[i] < LOBBY_CREATION_WINDOW}

(* C18: calls processed one at a time: a call is admitted iff fewer than N  *)
(* admissions of its key lie in the preceding window; a rejected call is    *)
(* not recorded; a call made when the window has elapsed since every        *)
(* admission is admitted; no window holds more than N admissions of a key;  *)
(* the other keys are left alone                                            *)
C18_SlidingWindowLimiter ==
    /\ [][ (now' = now /\ resp'.op = "limit")
           => LET key == resp'.ip
                  before == Get(REQUEST_TIMES, key, <<>>)
              IN  /\ resp'.status = 200
                        <=> Cardinality(InWindow(admitted, key, now)) < LOBBY_CREATION_LIMIT
                  /\ resp'.status = 200
                        => /\ Get(admitted', key, <<>>) = Append(Get(admitted, key, <<>>), now)
                           /\ REQUEST_TIMES'[key][Len(REQUEST_TIMES'[key])] = now
                  /\ resp'.status # 200
                        => /\ resp'.status = 429
                           /\ admitted' = admitted
                           /\ Len(REQUEST_TIMES'[key]) <= Len(before)
                  /\ (\A i \in 1..Len(Get(admitted, key, <<>>)) :
                          now - admitted[key][i] >= LOBBY_CREATION_WINDOW)
                        => resp'.status = 200
                  /\ \A other \in LimiterKeys \ {key} :
                        /\ Get(REQUEST_TIMES', other, <<>>) = Get(REQUEST_TIMES, other, <<>>)
                        /\ Get(admitted', other, <<>>) = Get(admitted, other, <<>>)
         ]_vars
    /\ [](\A key \in DOMAIN admitted : \A i \in 1..Len(admitted[key]) :
             Cardinality({j \in 1..Len(admitted[key]) :
                            /\ admitted[key][i] <= admitted[key][j]
                            /\ admitted[key][j] - admitted[key][i] < LOBBY_CREATION_WINDOW})
               <= LOBBY_CREATION_LIMIT)

(* five admissions, a sixth call turned away, and one admitted again when   *)
(* the window had passed                                                    *)
C18_Witness ==
    /\ resp.op = "limit" /\ resp.status = 200 /\ resp.ip = "ip1"
    /\ "ip1" \in DOMAIN admitted
    /\ Len(admitted["ip1"]) = LOBBY_CREATION_LIMIT + 1
    /\ \A i \in 1..LOBBY_CREATION_LIMIT : admitted["ip1"][i] = StartTime
    /\ admitted["ip1"][LOBBY_CREATION_LIMIT + 1] = StartTime + LOBBY_CREATION_WINDOW
    /\ REQUEST_TIMES["ip1"] = <<StartTime + LOBBY_CREATION_WINDOW>>


(* SpecLimit: two request threads inside the creation limiter at the same    *)
(* time, after k calls of "ip1" that were admitted one at a time.            *)

RECURSIVE Earlier(_)
Earlier(k) ==
    IF k = 0 THEN EmptyDict
    ELSE check_rate_limit(Earlier(k - 1), LimiterCallOf("ip1", StartTime),
                          LOBBY_CREATION_LIMIT, LOBBY_CREATION_WINDOW).D

SpecLimit ==
    /\ InitWorld(Startup(crate, 3)) /\ resp = NoReq /\ call = NoCall
    /\ \E k \in 0..LOBBY_CREATION_LIMIT, key \in LimiterKeys,
          d \in {0, LOBBY_CREATION_WINDOW - 1, LOBBY_CREATION_WINDOW} :
          /\ REQUEST_TIMES = Earlier(k)
          /\ admitted = Earlier(k)
          /\ now = StartTime + d
          /\ threads = [start |-> World,
                        th |-> <<LimiterCallOf("ip1", now), LimiterCallOf(key, now)>>]
    /\ [][\E i \in 1..2 :
            /\ threads.th[i].pc # "done"
            /\ LET n == LimiterStep(REQUEST_TIMES, threads.th[i],
                                    LOBBY_CREATION_LIMIT, LOBBY_CREATION_WINDOW)
               IN  /\ REQUEST_TIMES' = n.D
                   /\ threads' = [threads EXCEPT !.th[i] = n.th]
                   /\ admitted' = IF n.th.pc = "done" /\ n.th.ok
                                  THEN Admit(admitted, n.th.key, n.th.t)
                                  ELSE admitted
            /\ UNCHANGED <<LOBBIES, RECENTLY_REMOVED_LOBBIES, current_state,
                           last_purge_time, persisted, now, resp, call>>]_vars

(* how often t occurs in the sequence a *)
CountOf(a, t) == Cardinality({i \in 1..Len(a) : a[i] = t})

(* C19: with limiter calls of one key running at the same time, no window  *)
(* holds more than N admissions of the key, and the timestamp of every      *)
(* admission of the window is in the key's list                             *)
C19_ConcurrentLimiterSafe ==
    (\A i \in 1..2 : threads.th[i].pc = "done")
    => \A key \in DOMAIN admitted :
          /\ Cardinality(InWindow(admitted, key, now)) <= LOBBY_CREATION_LIMIT
          /\ \A i \in InWindow(admitted, key, now) :
                CountOf(REQUEST_TIMES[key], admitted[key][i])
                   >= CountOf(admitted[key], admitted[key][i])


-----------------------------------------------------------------------------
(* SpecStream: a lobby with open streams.  Player A is registered, on the    *)
(* DEFAULT lobby through the legacy routes or on a created lobby through     *)
(* the lobby routes; streams are opened, the stream "q1" is read by its      *)
(* client and "q2" is not; the requests of StreamRequests arrive one at a    *)
(* time.                                                                     *)

MaxBacklog == 2

StreamRequests ==
    << [h |-> "emoji", emoji |-> B, player_id |-> T2, ip |-> "ip2", t |-> StartTime,
        fresh |-> FreshToken],
       [h |-> "guess", emoji |-> A, player_id |-> T1, ip |-> "ip1", t |-> StartTime,
        raw |-> carte, word |-> crate, dd_index |-> 3],
       [h |-> "guess", emoji |-> A, player_id |-> T1, ip |-> "ip1", t |-> StartTime,
        raw |-> crate, word |-> crate, dd_index |-> 3],
       [h |-> "chat", emoji |-> A, player_id |-> T1, ip |-> "ip1", t |-> StartTime,
        text_len |-> 2],
       [h |-> "hint", emoji |-> A, player_id |-> T1, ip |-> "ip1", col |-> 0],
       [h |-> "leave", emoji |-> A, player_id |-> T1, ip |-> "ip1", t |-> StartTime],
       [h |-> "kick", emoji |-> A, player_id |-> NoToken, ip |-> "", token |-> HostToken,
        t |-> StartTime],
       [h |-> "reset", emoji |-> NoEmoji, player_id |-> NoToken, ip |-> "", word |-> carte,
        dd_index |-> 3, t |-> StartTime],
       [h |-> "heartbeat", emoji |-> A, player_id |-> T1, ip |-> "ip1", t |-> StartTime],
       [h |-> "heartbeat", emoji |-> A, player_id |-> FreshToken, ip |-> "ip1", t |-> StartTime],
       [h |-> "heartbeat", emoji |-> A, player_id |-> FreshToken, ip |-> "ip2", t |-> StartTime],
       [h |-> "stream", emoji |-> NoEmoji, player_id |-> NoToken, ip |-> "ip1", q |-> "q1"],
       [h |-> "stream", emoji |-> NoEmoji, player_id |-> NoToken, ip |-> "ip2", q |-> "q2"] >>

(* the routes that exist: /hint only as a legacy route, kick and leave only  *)
(* as lobby routes; /lobby/<code>/reset checks the host token first          *)
Serve(w, code, rq) ==
    IF rq.h = "guess"
    THEN LET g == guess_word(w, code = DEFAULT_LOBBY, code, rq.raw, rq.emoji, rq.player_id,
                             rq.ip, TRUE, TRUE, rq.t, rq.word, rq.dd_index)
         IN  Reply(g.w, g.th.status, <<g.th.points_delta>>)
    ELSE IF code = DEFAULT_LOBBY
    THEN IF rq.h \in {"leave", "kick"} THEN Reply(w, 404, <<>>) ELSE func(w, rq)
    ELSE IF rq.h = "hint" THEN Reply(w, 404, <<>>)
    ELSE IF rq.h = "reset" THEN lobby_reset(w, code, HostToken, rq.t, rq.word, rq.dd_index)
    ELSE with_lobby(w, code, StartTime, crate, 3, rq)

SpecStream ==
    /\ \E legacy \in BOOLEAN :
          LET HA == [h |-> "emoji", emoji |-> A, player_id |-> T1, ip |-> "ip1",
                     t |-> StartTime, fresh |-> FreshToken]
              w0 == Startup(crate, 3)
              w1 == lobby_create(w0, LobbyCode, HostToken, StartTime, crate, 3, TRUE).w
          IN  InitWorld(IF legacy THEN func(w0, HA).w
                        ELSE with_lobby(w1, LobbyCode, StartTime, crate, 3, HA).w)
    /\ now = StartTime /\ resp = NoReq /\ threads = NoThreads /\ call = NoCall
    /\ REQUEST_TIMES = EmptyDict /\ admitted = EmptyDict
    /\ [][\/ \E i \in 1..Len(StreamRequests), code \in {DEFAULT_LOBBY, LobbyCode} :
               LET rq == StreamRequests[i]
                   r == Serve(World, code, rq)
               IN  /\ code = DEFAULT_LOBBY <=> LobbyCode \notin DOMAIN LOBBIES
                                                 /\ DOMAIN RECENTLY_REMOVED_LOBBIES = {}
                   /\ r.status # 404
                   /\ rq.h = "stream" => rq.q \notin DOMAIN LOBBIES[code].listeners
                   /\ \A q \in DOMAIN LOBBIES[code].listeners :
                         Len(LOBBIES[code].listeners[q]) <= MaxBacklog
                   /\ Len(LOBBIES[code].past_games) < MaxRounds \/ rq.h # "reset"
                   /\ SetWorld(r.w)
                   /\ resp' = Req(rq.h, code, rq.emoji, rq.player_id, rq.ip, <<>>, r)
                   /\ UNCHANGED <<now, threads, call, REQUEST_TIMES, admitted>>
          \/ \E code \in DOMAIN LOBBIES :
               \* gen() of the stream "q1": data = q.get()
               /\ "q1" \in DOMAIN LOBBIES[code].listeners
               /\ LOBBIES[code].listeners["q1"] # <<>>
               /\ LOBBIES' = [LOBBIES EXCEPT ![code].listeners["q1"] = Tail(@)]
               /\ resp' = NoReq
               /\ UNCHANGED <<RECENTLY_REMOVED_LOBBIES, current_state, last_purge_time,
                              persisted, now, threads, call, REQUEST_TIMES, admitted>>]_vars


(* a request that changed a lobby and was answered with success *)
Mutated == /\ Served
           /\ resp'.op \in {"emoji", "guess", "chat", "hint", "reset", "kick", "leave"}
           /\ resp'.status = 200

(* the queue q of the lobby received exactly one snapshot, taken of the lobby's new state *)
Enqueued(code, q) ==
    /\ code \in DOMAIN LOBBIES'
    /\ q \in DOMAIN LOBBIES'[code].listeners
    /\ LOBBIES'[code].listeners[q] =
           Append(LOBBIES[code].listeners[q], build_state_payload(LOBBIES'[code]))

(* C21: every successful mutating operation (registration, accepted guess,   *)
(* chat post, hint selection, reset, kick, leave) enqueues exactly one       *)
(* snapshot, serialized after the mutation, to each channel subscribed to    *)
(* that lobby.                                                               *)
C21_SnapshotPerMutation ==
    [][Mutated => \A q \in DOMAIN LOBBIES[resp'.code].listeners : Enqueued(resp'.code, q)]_vars

(* the same for the operations after which the lobby is still registered *)
SnapshotUnlessLobbyRemoved ==
    [][Mutated /\ resp'.code \in DOMAIN LOBBIES'
         => \A q \in DOMAIN LOBBIES[resp'.code].listeners : Enqueued(resp'.code, q)]_vars


(* the queue q of the lobby holds as many undelivered snapshots as the bound allows *)
Full(code, q) == Len(LOBBIES[code].listeners[q]) >= MaxBacklog

(* C22: each subscriber channel holds at most a fixed number of undelivered  *)
(* snapshots (MaxBacklog stands for the number); a broadcast never grows a   *)
(* channel beyond the bound, and a channel that is full because its          *)
(* subscriber stopped consuming is removed by the next broadcast.            *)
C22_BoundedChannel ==
    /\ [](\A code \in DOMAIN LOBBIES : \A q \in DOMAIN LOBBIES[code].listeners :
             Len(LOBBIES[code].listeners[q]) <= MaxBacklog)
    /\ [][Mutated /\ resp'.code \in DOMAIN LOBBIES'
            => \A q \in DOMAIN LOBBIES[resp'.code].listeners :
                  Full(resp'.code, q) => q \notin DOMAIN LOBBIES'[resp'.code].listeners]_vars


-----------------------------------------------------------------------------
(* SpecKick: one request thread inside guess_word for player A of a lobby    *)
(* with the players A and B, while the host's kick of A or A's own leave     *)
(* (sent from another tab) is served by another thread.  The guess runs      *)
(* statement group by statement group; the kick and the leave are served     *)
(* between two of them.                                                       *)
SpecKick ==
    /\ \E k \in {0, MAX_ROWS - 1} : InitWorld(GameStart(crate, 3, k))
    /\ now = StartTime /\ resp = NoReq /\ call = NoCall
    /\ REQUEST_TIMES = EmptyDict /\ admitted = EmptyDict
    /\ \E raw \in {carte, crate} :
          threads = [start |-> World, th |-> <<ThreadOf(<<raw>> \o PlayerA)>>]
    /\ [][\/ /\ threads.th[1].pc # "done"
             /\ LET n == GuessStep(World, threads.th[1], now, crate, 3)
                IN  SetWorld(n.w) /\ threads' = [threads EXCEPT !.th[1] = n.th]
             /\ UNCHANGED <<now, resp, call, REQUEST_TIMES, admitted>>
          \/ /\ resp.op = "none"
             /\ KickOf({A}, {HostToken}, {crate})
             /\ UNCHANGED threads
          \/ /\ resp.op = "none"
             /\ LeaveOf({A}, {T1}, {"ip1"}, {crate})
             /\ UNCHANGED threads]_vars

(* the guess request has returned and its guess is in the list *)
Appended == /\ threads.th[1].pc = "done"
            /\ threads.th[1].ix > 0
            /\ threads.th[1].entry_code \in DOMAIN LOBBIES

(* the score A had when the request arrived *)
ScoreBefore == threads.start.L[LobbyCode].leaderboard[A].score

(* C23: every guess that was appended has its score delta computed, attached *)
(* to the entry and added to the submitter's score, also when a kick or a    *)
(* leave of the submitter is served while the guess is being processed.      *)
C23_AppendedGuessScored ==
    Appended =>
       LET th == threads.th[1]
           s == LOBBIES[th.entry_code]
       IN  /\ th.status = 200
           /\ s.guesses[th.ix].has_points
           /\ s.guesses[th.ix].points = th.points_delta
           /\ A \in DOMAIN s.leaderboard
           /\ s.leaderboard[A].score = ScoreBefore + th.points_delta

(* the same for the runs in which A is still a player when the guess returns *)
ScoredUnlessRemoved ==
    Appended /\ A \in DOMAIN LOBBIES[LobbyCode].leaderboard => C23_AppendedGuessScored


(* the parts of a lobby state, or of its persisted snapshot, that C24 names *)
DurableView(s) ==
    [leaderboard |-> s.leaderboard, ip_to_emoji |-> s.ip_to_emoji, player_map |-> s.player_map,
     guesses |-> s.guesses, found_greens |-> s.found_greens, found_yellows |-> s.found_yellows,
     phase |-> s.phase, daily_double_index |-> s.daily_double_index,
     daily_double_winners |-> s.daily_double_winners,
     daily_double_pending |-> s.daily_double_pending]

PersistedIsCurrent(code) ==
    /\ code \in DOMAIN persisted'
    /\ DurableView(persisted'[code]) = DurableView(LOBBIES'[code])

(* C24: after every mutating operation has completed, the last persisted     *)
(* snapshot of the lobby equals its in-memory state: leaderboard, indices,   *)
(* guess list with the score deltas, discovery sets, phase and bonus state.  *)
C24_PersistedEqualsMemory ==
    [][Mutated /\ resp'.code \in DOMAIN LOBBIES' => PersistedIsCurrent(resp'.code)]_vars

(* the same for the operations other than guess and kick *)
PersistedUnlessGuessOrKick ==
    [][Mutated /\ resp'.code \in DOMAIN LOBBIES' /\ resp'.op \notin {"guess", "kick"}
         => PersistedIsCurrent(resp'.code)]_vars


(* a guess request that was accepted and ended the round *)
RoundEndingGuess ==
    /\ Served /\ resp'.op = "guess" /\ resp'.status = 200
    /\ resp'.code \in DOMAIN LOBBIES /\ resp'.code \in DOMAIN LOBBIES'
    /\ ~LOBBIES[resp'.code].is_over /\ LOBBIES'[resp'.code].is_over

(* C25: the response and the broadcast of a round-ending guess are produced  *)
(* without waiting for the definition lookup: the lookup is not part of the  *)
(* request, so when the request has returned and its snapshot is enqueued    *)
(* the lobby's definition is still the one it had before.                    *)
C25_DefinitionOffRequestPath ==
    [][RoundEndingGuess =>
          /\ LOBBIES'[resp'.code].definition = LOBBIES[resp'.code].definition
          /\ LOBBIES'[resp'.code].last_definition = LOBBIES[resp'.code].last_definition]_vars


-----------------------------------------------------------------------------
(* SpecBonus: the Daily Double on the legacy routes of the DEFAULT lobby, the *)
(* only ones with /hint.  Players A and B are registered; guesses, hint      *)
(* selections and resets (/reset takes no token) are served one at a time.   *)
(* The first round opens with the guesses of Opening, the later guesses are  *)
(* taken from BonusRequests.  The bonus tile is drawn in the first or in the *)
(* last row that can hold it.                                                *)

BonusDraws == {3, (MAX_ROWS - 2) * WORD_LEN + 3}

BonusRequests ==
    {<<earth>> \o PlayerA, <<carte>> \o PlayerB, <<crate>> \o PlayerA, <<abbey>> \o PlayerB}

(* the two registrations on the legacy route *)
BonusRegistered(dd_index) ==
    LET HA == [h |-> "emoji", emoji |-> A, player_id |-> T1, ip |-> "ip1",
               t |-> StartTime, fresh |-> FreshToken]
        HB == [h |-> "emoji", emoji |-> B, player_id |-> T2, ip |-> "ip2",
               t |-> StartTime, fresh |-> FreshToken]
    IN  func(func(Startup(crate, dd_index), HA).w, HB).w

SpecBonus ==
    /\ \E dd_index \in BonusDraws : InitWorld(BonusRegistered(dd_index))
    /\ now = StartTime /\ resp = NoReq /\ threads = NoThreads /\ call = NoCall
    /\ REQUEST_TIMES = EmptyDict /\ admitted = EmptyDict
    /\ [][\/ LET s == LOBBIES[DEFAULT_LOBBY]
                 opening == s.past_games = <<>> /\ Len(s.guesses) < MAX_ROWS - 2
             IN  GuessOf({DEFAULT_LOBBY},
                         IF opening THEN {Opening[Len(s.guesses) + 1]} ELSE BonusRequests,
                         {<<TRUE, TRUE>>}, {crate})
          \/ \E p \in {PlayerA, PlayerB} : HintOf({p[1]}, {p[2]}, {p[3]}, {1, WORD_LEN})
          \/ \E dd_index \in BonusDraws :
                LET r == func(World, [h |-> "reset", word |-> carte, dd_index |-> dd_index,
                                      t |-> now])
                IN  /\ Len(LOBBIES[DEFAULT_LOBBY].past_games) < MaxRounds
                    /\ SetWorld(r.w)
                    /\ resp' = Req("reset", DEFAULT_LOBBY, NoEmoji, NoToken, "", <<>>, r)
                    /\ UNCHANGED <<now, threads, call, REQUEST_TIMES, admitted>>]_vars


(* a guess request on the DEFAULT lobby that was accepted *)
GuessAccepted == Served /\ resp'.op = "guess" /\ resp'.status = 200

(* the accepted guess was awarded the Daily Double *)
Awarded == resp'.emoji \in LOBBIES'[DEFAULT_LOBBY].daily_double_winners
                             \ LOBBIES[DEFAULT_LOBBY].daily_double_winners

(* the accepted guess landed on the bonus row with a correct letter on the   *)
(* tile, and its submitter had not won the bonus of the round                *)
OnTheTile ==
    LET s == LOBBIES[DEFAULT_LOBBY]
        row == Len(s.guesses)
        entry == LOBBIES'[DEFAULT_LOBBY].guesses[row + 1]
    IN  /\ s.daily_double_index # NoIndex
        /\ row = s.daily_double_index \div WORD_LEN
        /\ entry.result[(s.daily_double_index % WORD_LEN) + 1] = "correct"
        /\ resp'.emoji \notin s.daily_double_winners

(* C26: with guesses served one at a time a round awards at most one Daily   *)
(* Double; an accepted guess is awarded iff its row is the bonus row, its    *)
(* verdict at the tile's column is correct and its submitter has not already *)
(* won; the award makes a hint pending for the next row, which is always     *)
(* below MAX_ROWS; nothing else adds a winner.                               *)
C26_DailyDoubleAward ==
    /\ [](/\ Cardinality(LOBBIES[DEFAULT_LOBBY].daily_double_winners) <= 1
          /\ \A e \in DOMAIN LOBBIES[DEFAULT_LOBBY].daily_double_pending :
                LOBBIES[DEFAULT_LOBBY].daily_double_pending[e] < MAX_ROWS)
    /\ [][/\ GuessAccepted => (Awarded <=> OnTheTile)
          /\ GuessAccepted /\ Awarded =>
                LET s == LOBBIES[DEFAULT_LOBBY]
                    s2 == LOBBIES'[DEFAULT_LOBBY]
                IN  /\ s2.daily_double_winners = s.daily_double_winners \cup {resp'.emoji}
                    /\ resp'.emoji \in DOMAIN s2.daily_double_pending
                    /\ s2.daily_double_pending[resp'.emoji] = Len(s.guesses) + 1
                    /\ Len(s.guesses) + 1 < MAX_ROWS
          /\ ~(GuessAccepted /\ Awarded) =>
                /\ LOBBIES'[DEFAULT_LOBBY].daily_double_winners
                      \subseteq LOBBIES[DEFAULT_LOBBY].daily_double_winners
                /\ resp'.op = "guess" =>
                      LOBBIES'[DEFAULT_LOBBY].daily_double_pending
                         = LOBBIES[DEFAULT_LOBBY].daily_double_pending]_vars

(* the bonus was won in the last row that can hold the tile: the hint is     *)
(* pending for row MAX_ROWS - 1                                              *)
C26_Witness ==
    \E e \in LOBBIES[DEFAULT_LOBBY].daily_double_winners :
       /\ e \in DOMAIN LOBBIES[DEFAULT_LOBBY].daily_double_pending
       /\ LOBBIES[DEFAULT_LOBBY].daily_double_pending[e] = MAX_ROWS - 1
       /\ resp.op = "guess" /\ resp.status = 200


-----------------------------------------------------------------------------
(* SpecHint: two request threads inside select_hint at the same time.  No    *)
(* lock is taken, so the threads interleave between the checks (lines        *)
(* 913-947), the pop of the pending entry (949) and the rest (950-962).      *)
(* Before the requests arrive player A may win the Daily Double of row 0.    *)

NewHint(emoji, player_id, ip, col) ==
    [pc |-> "check", emoji |-> emoji, player_id |-> player_id, ip |-> ip, col |-> col,
     row |-> NoIndex, letter |-> <<>>, status |-> 0]

(* faulty variant: the entry is popped with a default, as kick and leave do *)
HintStep_PopDefault(w, th) ==
    LET s == CS(w)
    IN  CASE th.pc = "check" ->
               LET verdict == identity_check(s, th.emoji, th.player_id, th.ip)
                   s1 == IF verdict = "heal" THEN heal(s, th.emoji, th.player_id) ELSE s
               IN  IF verdict = "reject"
                   THEN [w |-> w, th |-> [th EXCEPT !.status = 403, !.pc = "done"]]
                   ELSE IF th.emoji \notin DOMAIN s1.daily_double_pending
                   THEN [w |-> WithCS(w, s1), th |-> [th EXCEPT !.status = 400, !.pc = "done"]]
                   ELSE IF ~(0 <= th.col /\ th.col < WORD_LEN)
                   THEN [w |-> WithCS(w, s1), th |-> [th EXCEPT !.status = 400, !.pc = "done"]]
                   ELSE [w |-> WithCS(w, s1), th |-> [th EXCEPT !.pc = "pop"]]
          [] th.pc = "pop" ->
               [w |-> WithCS(w, [s EXCEPT !.daily_double_pending = Pop(@, th.emoji)]),
                th |-> [th EXCEPT !.row = Get(s.daily_double_pending, th.emoji, NoIndex),
                                  !.pc = "reply"]]
          [] th.pc = "reply" ->
               [w |-> broadcast_state(save_data_legacy(w)),
                th |-> [th EXCEPT !.letter = <<s.target_word[th.col + 1]>>, !.status = 200,
                                  !.pc = "done"]]
          [] OTHER -> [w |-> w, th |-> th]

(* one statement group of select_hint *)
HintStep(w, th) ==
    LET s == CS(w)
    IN  CASE th.pc = "check" ->
               LET verdict == identity_check(s, th.emoji, th.player_id, th.ip)
                   s1 == IF verdict = "heal" THEN heal(s, th.emoji, th.player_id) ELSE s
               IN  IF verdict = "reject"
                   THEN [w |-> w, th |-> [th EXCEPT !.status = 403, !.pc = "done"]]
                   ELSE IF th.emoji \notin DOMAIN s1.daily_double_pending
                   THEN [w |-> WithCS(w, s1), th |-> [th EXCEPT !.status = 400, !.pc = "done"]]
                   ELSE IF ~(0 <= th.col /\ th.col < WORD_LEN)
                   THEN [w |-> WithCS(w, s1), th |-> [th EXCEPT !.status = 400, !.pc = "done"]]
                   ELSE [w |-> WithCS(w, s1), th |-> [th EXCEPT !.pc = "pop"]]
          [] th.pc = "pop" ->
               \* row = current_state.daily_double_pending.pop(emoji): KeyError without the key
               IF th.emoji \notin DOMAIN s.daily_double_pending
               THEN [w |-> w, th |-> [th EXCEPT !.status = 500, !.pc = "done"]]
               ELSE [w |-> WithCS(w, [s EXCEPT !.daily_double_pending = Pop(@, th.emoji)]),
                     th |-> [th EXCEPT !.row = s.daily_double_pending[th.emoji], !.pc = "reply"]]
          [] th.pc = "reply" ->
               [w |-> broadcast_state(save_data_legacy(w)),
                th |-> [th EXCEPT !.letter = <<s.target_word[th.col + 1]>>, !.status = 200,
                                  !.pc = "done"]]
          [] OTHER -> [w |-> w, th |-> th]

HintRequests ==
    {<<A, T1, "ip1", 1>>, <<A, T1, "ip1", 2>>, <<A, T1, "ip1", WORD_LEN>>, <<B, T2, "ip2", 1>>}

SpecHint ==
    /\ InitWorld(BonusRegistered(3))
    /\ now = StartTime /\ resp = NoReq /\ threads = NoThreads /\ call = NoCall
    /\ REQUEST_TIMES = EmptyDict /\ admitted = EmptyDict
    /\ [][\/ /\ threads = NoThreads
             /\ GuessOf({DEFAULT_LOBBY}, {<<earth>> \o PlayerA, <<abbey>> \o PlayerB},
                        {<<TRUE, TRUE>>}, {crate})
             /\ UNCHANGED threads
          \/ /\ threads = NoThreads
             /\ \E rqs \in [1..NThreads -> HintRequests] :
                   threads' = [start |-> World,
                               th |-> [i \in 1..NThreads |->
                                         NewHint(rqs[i][1], rqs[i][2], rqs[i][3], rqs[i][4])]]
             /\ UNCHANGED <<LOBBIES, RECENTLY_REMOVED_LOBBIES, current_state, last_purge_time,
                            persisted, now, resp, call, REQUEST_TIMES, admitted>>
          \/ /\ threads # NoThreads
             /\ \E i \in 1..NThreads :
                   /\ threads.th[i].pc # "done"
                   /\ LET n == HintStep(World, threads.th[i])
                      IN  SetWorld(n.w) /\ threads' = [threads EXCEPT !.th[i] = n.th]
             /\ UNCHANGED <<now, resp, call, REQUEST_TIMES, admitted>>]_vars

(* the hint requests of SpecHint that have returned with a letter for emoji e *)
Redeemed(e) ==
    {i \in 1..NThreads : /\ threads.th[i].pc = "done" /\ threads.th[i].status = 200
                         /\ threads.th[i].emoji = e}

(* C27: a pending hint is redeemed at most once.  A successful selection     *)
(* removes the pending entry and reveals one letter of the secret; every     *)
(* further selection fails with an error status and reveals nothing, also    *)
(* when the two selections are processed concurrently.                       *)
C27_HintRedeemedOnce ==
    threads # NoThreads =>
       LET pending0 == threads.start.L[DEFAULT_LOBBY].daily_double_pending
           s == LOBBIES[DEFAULT_LOBBY]
       IN  /\ \A e \in {A, B} :
                 /\ Cardinality(Redeemed(e)) <= IF e \in DOMAIN pending0 THEN 1 ELSE 0
                 /\ Redeemed(e) # {} => e \notin DOMAIN s.daily_double_pending
           /\ \A i \in 1..NThreads :
                 threads.th[i].pc = "done" =>
                    IF threads.th[i].status = 200
                    THEN /\ threads.th[i].letter = <<s.target_word[threads.th[i].col + 1]>>
                         /\ threads.th[i].row = pending0[threads.th[i].emoji]
                    ELSE /\ threads.th[i].status \in {400, 403, 500}
                         /\ threads.th[i].letter = <<>>

(* both selections of A's pending hint passed the checks before either       *)
(* popped: one returned the letter, the other failed                         *)
C27_Witness ==
    /\ threads # NoThreads
    /\ \E i, j \in 1..NThreads :
          /\ threads.th[i].pc = "done" /\ threads.th[i].status = 200
          /\ threads.th[j].pc = "done" /\ threads.th[j].status = 500
          /\ threads.th[i].emoji = threads.th[j].emoji


(* C28: a reset keeps every pending hint, re-targeted to row 0, and clears   *)
(* the winners of the round; a hint kept over the reset is redeemed against  *)
(* the new secret.                                                           *)
C28_ResetKeepsPendingHints ==
    [][LET s == LOBBIES[DEFAULT_LOBBY]
           s2 == LOBBIES'[DEFAULT_LOBBY]
       IN  /\ Served /\ resp'.op = "reset" /\ resp'.status = 200 =>
                /\ DOMAIN s2.daily_double_pending = DOMAIN s.daily_double_pending
                /\ \A e \in DOMAIN s2.daily_double_pending : s2.daily_double_pending[e] = 0
                /\ s2.daily_double_winners = {}
           /\ /\ Served /\ resp'.op = "hint" /\ resp'.arg = <<"1">>
              /\ resp'.emoji \in DOMAIN s.daily_double_pending
              => /\ resp'.status = 200
                 /\ resp'.out = <<s.target_word[2]>>
                 /\ s2.daily_double_pending = Pop(s.daily_double_pending, resp'.emoji)]_vars

(* a hint won in the first round was redeemed after the reset, before any    *)
(* guess of the new round: the letter is the new secret's                    *)
C28_Witness ==
    /\ resp.op = "hint" /\ resp.status = 200
    /\ LOBBIES[DEFAULT_LOBBY].past_games # <<>>
    /\ LOBBIES[DEFAULT_LOBBY].guesses = <<>>
    /\ LOBBIES[DEFAULT_LOBBY].target_word = carte
    /\ resp.out = <<carte[2]>>
    /\ carte[2] # crate[2]


(* a heartbeat (POST state) for a registered emoji with a token other than   *)
(* the stored one, both of them 32 lowercase hex characters                  *)
StaleHeartbeat ==
    /\ Served /\ resp'.op = "heartbeat"
    /\ resp'.code \in DOMAIN LOBBIES /\ resp'.code \in DOMAIN LOBBIES'
    /\ resp'.emoji \in DOMAIN LOBBIES[resp'.code].leaderboard
    /\ LOBBIES[resp'.code].leaderboard[resp'.emoji].player_id # resp'.player_id
    /\ IsHex32(resp'.player_id)
    /\ IsHex32(LOBBIES[resp'.code].leaderboard[resp'.emoji].player_id)

FromRegisteredAddress == LOBBIES[resp'.code].leaderboard[resp'.emoji].ip = resp'.ip

BindingsKept(s, s2) ==
    /\ s2.leaderboard = s.leaderboard
    /\ s2.player_map = s.player_map

(* the heartbeat from another address changes neither the stored token nor   *)
(* the token index                                                           *)
HeartbeatFromElsewhereRebindsNothing ==
    [][StaleHeartbeat /\ ~FromRegisteredAddress
          => BindingsKept(LOBBIES[resp'.code], LOBBIES'[resp'.code])]_vars

(* C29: a heartbeat with a stale but valid token, sent from the emoji's      *)
(* registered address, rebinds the emoji to that token (stored token and     *)
(* token index); sent from a different address it rebinds nothing.           *)
C29_HeartbeatHeals ==
    [][StaleHeartbeat =>
          LET s == LOBBIES[resp'.code]
              s2 == LOBBIES'[resp'.code]
          IN  IF FromRegisteredAddress
              THEN /\ s2.leaderboard[resp'.emoji].player_id = resp'.player_id
                   /\ resp'.player_id \in DOMAIN s2.player_map
                   /\ s2.player_map[resp'.player_id] = resp'.emoji
              ELSE BindingsKept(s, s2)]_vars


-----------------------------------------------------------------------------
(* SpecHost: the host's requests on a lobby with the players A and B, with   *)
(* the right host token and with another one, between guesses and while the  *)
(* clock runs up to the idle limit.                                          *)
SpecHost ==
    /\ InitWorld(Registered(crate, 3))
    /\ now = StartTime /\ resp = NoReq /\ threads = NoThreads /\ call = NoCall
    /\ REQUEST_TIMES = EmptyDict /\ admitted = EmptyDict
    /\ [][\/ Tick
          \/ GuessOf({LobbyCode}, {<<crate>> \o PlayerA, <<carte>> \o PlayerB},
                     {<<TRUE, TRUE>>}, {crate})
          \/ KickOf({A, NoEmoji}, {HostToken, "nothost"}, {crate})
          \/ /\ LobbyCode \in DOMAIN LOBBIES
             /\ Len(LOBBIES[LobbyCode].past_games) < MaxRounds
             /\ ResetOf({HostToken, "nothost"}, {carte})]_vars

(* a kick or a reset sent to a registered lobby; the token it carries *)
HostRequest == Served /\ resp'.op \in {"kick", "reset"} /\ resp'.code \in DOMAIN LOBBIES

RightToken == resp'.arg[1] = LOBBIES[resp'.code].host_token

(* what C30 says a refused request leaves alone *)
HostView(s) ==
    [leaderboard |-> s.leaderboard, ip_to_emoji |-> s.ip_to_emoji, player_map |-> s.player_map,
     guesses |-> s.guesses, target_word |-> s.target_word, past_games |-> s.past_games,
     phase |-> s.phase]

Untouched == /\ resp'.code \in DOMAIN LOBBIES'
             /\ HostView(LOBBIES'[resp'.code]) = HostView(LOBBIES[resp'.code])

(* C30: a kick or a reset on a lobby takes effect only when the request's    *)
(* host token equals the lobby's host token; with any other token it is      *)
(* answered Forbidden (403) and the lobby's leaderboard, reverse indices,    *)
(* guess list, secret word, archive and phase are unchanged.                 *)
C30_HostTokenRequired ==
    [][HostRequest =>
          /\ resp'.status = 200 => RightToken
          /\ ~RightToken => resp'.status = 403 /\ Untouched]_vars

(* a refused request that names a player still changes the lobby: the refusal *)
(* of a kick comes after the purge and the reload of an idle lobby           *)
RefusedKickLeavesLobby ==
    [][HostRequest /\ ~RightToken /\ resp'.emoji # NoEmoji =>
          resp'.status = 403 /\ Untouched]_vars

(* what holds: no request takes effect without the host token; a refused one *)
(* is answered 403, or 400 when a kick names no player, and it leaves the    *)
(* lobby alone unless the lobby was due for the purge when the kick arrived  *)
RefusedUnlessPurged ==
    [][HostRequest =>
          /\ resp'.status = 200 => RightToken
          /\ ~RightToken =>
                /\ resp'.status = IF resp'.op = "kick" /\ resp'.emoji = NoEmoji THEN 400 ELSE 403
                /\ \/ Untouched
                   \/ resp'.op = "kick" /\ resp'.code \notin DOMAIN purge_lobbies(World, now).L]_vars


-----------------------------------------------------------------------------
(* a kick or a leave that removed the player resp'.emoji from a lobby *)
Removal ==
    /\ Served /\ resp'.op \in {"kick", "leave"} /\ resp'.status = 200
    /\ resp'.code \in DOMAIN LOBBIES
    /\ resp'.emoji \in DOMAIN LOBBIES[resp'.code].leaderboard

(* the entries of index `ix` that point at the player x are still there *)
IndexKept(ix, ix2, x) == \A k \in DOMAIN ix : ix[k] = x => k \in DOMAIN ix2 /\ ix2[k] = x

LeaderboardOfOthersKept(s, s2, e) ==
    \A x \in DOMAIN s.leaderboard \ {e} :
        x \in DOMAIN s2.leaderboard /\ s2.leaderboard[x] = s.leaderboard[x]

OthersKept(s, s2, e) ==
    /\ LeaderboardOfOthersKept(s, s2, e)
    /\ \A x \in DOMAIN s.leaderboard \ {e} :
          IndexKept(s.ip_to_emoji, s2.ip_to_emoji, x) /\ IndexKept(s.player_map, s2.player_map, x)

(* C31: removing one player by kick or leave leaves every other player's     *)
(* leaderboard entry, source-address index entry and token index entry       *)
(* unchanged, also when both players are registered from one address.        *)
C31_RemovalKeepsOthers ==
    [][Removal /\ resp'.code \in DOMAIN LOBBIES' =>
          OthersKept(LOBBIES[resp'.code], LOBBIES'[resp'.code], resp'.emoji)]_vars

(* what holds: the leaderboard entries of the others are unchanged, and so   *)
(* are their index entries for every address but the removed player's and    *)
(* every token but the one the request carried                               *)
RemovalKeepsOtherEntries ==
    [][Removal /\ resp'.code \in DOMAIN LOBBIES' =>
          LET s == LOBBIES[resp'.code]
              s2 == LOBBIES'[resp'.code]
              e == resp'.emoji
          IN  /\ LeaderboardOfOthersKept(s, s2, e)
              /\ \A k \in DOMAIN s.ip_to_emoji :
                    s.ip_to_emoji[k] # e /\ k # s.leaderboard[e].ip =>
                        k \in DOMAIN s2.ip_to_emoji /\ s2.ip_to_emoji[k] = s.ip_to_emoji[k]
              /\ \A k \in DOMAIN s.player_map :
                    s.player_map[k] # e /\ k # resp'.player_id =>
                        k \in DOMAIN s2.player_map /\ s2.player_map[k] = s.player_map[k]]_vars


-----------------------------------------------------------------------------
(* SpecPhase: one lobby from its creation (or its first access) through      *)
(* registration, guesses, resets with the host token and without one, kicks  *)
(* without a host token, and idle time.                                      *)
SpecPhase ==
    /\ InitWorld(Startup(crate, 3))
    /\ now = StartTime /\ resp = NoReq /\ threads = NoThreads /\ call = NoCall
    /\ REQUEST_TIMES = EmptyDict /\ admitted = EmptyDict
    /\ [][\/ Tick
          \/ LobbyCreate
          \/ LobbyState
          \/ EmojiOf({LobbyCode}, {A}, {T1}, {"ip1"}, {crate})
          \/ GuessOf({LobbyCode}, {<<crate>> \o PlayerA, <<carte>> \o PlayerA},
                     {<<TRUE, TRUE>>}, {crate})
          \/ /\ LobbyCode \in DOMAIN LOBBIES
             /\ Len(LOBBIES[LobbyCode].past_games) < MaxRounds
             /\ ResetOf({HostToken, "None"}, {carte})
          \/ KickOf({A}, {"None"}, {crate})]_vars

(* the ways the phase of a registered lobby may change in one step *)
PhaseMove(code) ==
    LET p == LOBBIES[code].phase
        q == LOBBIES'[code].phase
    IN  p # q =>
           \/ q = "waiting" /\ resp'.op = "reset" /\ resp'.status = 200
           \/ p = "waiting" /\ q = "active" /\ resp'.op = "guess"
           \/ q = "finished" /\ resp'.op = "guess" /\ resp'.status = 200
                             /\ LOBBIES'[code].is_over

(* C32: a lobby's phase only moves forward along waiting, active, finished:  *)
(* waiting after creation and after every reset, active with the first       *)
(* guess of a round, finished only when a guess ends the round, and back to   *)
(* an earlier phase only through a reset.                                     *)
C32_PhaseForward ==
    [][/\ \A code \in DOMAIN LOBBIES \cap DOMAIN LOBBIES' : PhaseMove(code)
       /\ Served /\ resp'.op \in {"create", "reset"} /\ resp'.status = 200 =>
             LOBBIES'[resp'.code].phase = "waiting"]_vars


(* what holds: the phase moves as C32 says in every step but the one in      *)
(* which a request finds the lobby due for the purge and reloads it from its *)
(* saved snapshot, which has not seen the phase a refused guess had set      *)
PhaseForwardUnlessReloaded ==
    [][/\ \A code \in DOMAIN LOBBIES \cap DOMAIN LOBBIES' :
             PhaseMove(code) \/ code \notin DOMAIN purge_lobbies(World, now).L
       /\ Served /\ resp'.op \in {"create", "reset"} /\ resp'.status = 200 =>
             LOBBIES'[resp'.code].phase = "waiting"]_vars


-----------------------------------------------------------------------------
(* a guess request that was refused *)
GuessRejected ==
    /\ Served /\ resp'.op = "guess" /\ resp'.status # 200
    /\ resp'.code \in DOMAIN LOBBIES /\ resp'.code \in DOMAIN LOBBIES'

RoundView(s) ==
    [guesses |-> s.guesses, found_greens |-> s.found_greens,
     found_yellows |-> s.found_yellows, scores |-> Scores(s)]

(* C33: a guess that is rejected for any reason leaves the lobby's phase,    *)
(* guess list, discovery sets and scores unchanged; a rejected guess never   *)
(* moves a lobby from waiting to active.                                     *)
C33_RejectedGuessChangesNothing ==
    [][GuessRejected =>
          /\ RoundView(LOBBIES'[resp'.code]) = RoundView(LOBBIES[resp'.code])
          /\ LOBBIES'[resp'.code].phase = LOBBIES[resp'.code].phase]_vars

(* what holds: unless the request found the lobby due for the purge and      *)
(* reloaded it, the guess list, the discovery sets and the scores are left   *)
(* alone, and the phase changes only from waiting to active, for every       *)
(* rejection made after the rate limiter let the request through             *)
RejectedGuessKeepsRound ==
    [][GuessRejected /\ resp'.code \in DOMAIN purge_lobbies(World, now).L =>
          /\ RoundView(LOBBIES'[resp'.code]) = RoundView(LOBBIES[resp'.code])
          /\ \/ LOBBIES'[resp'.code].phase = LOBBIES[resp'.code].phase
             \/ /\ LOBBIES[resp'.code].phase = "waiting"
                /\ LOBBIES'[resp'.code].phase = "active"
                /\ resp'.status # 429]_vars


-----------------------------------------------------------------------------
(* SpecIdent: two clients behind one address on the legacy routes.  The      *)
(* client with token T1 is registered as A and is the only one that sends    *)
(* guesses; both clients register and rename, and both ask for hints.        *)
SpecIdent ==
    /\ InitWorld(func(Startup(crate, 3),
                      [h |-> "emoji", emoji |-> A, player_id |-> T1, ip |-> "ip1",
                       t |-> StartTime, fresh |-> FreshToken]).w)
    /\ now = StartTime /\ resp = NoReq /\ threads = NoThreads /\ call = NoCall
    /\ REQUEST_TIMES = EmptyDict /\ admitted = EmptyDict
    /\ [][\/ EmojiOf({DEFAULT_LOBBY}, {A, B}, {T1, T2}, {"ip1"}, {crate})
          \/ GuessOf({DEFAULT_LOBBY}, {earth, carte} \X {A, B} \X {T1} \X {"ip1"},
                     {<<TRUE, TRUE>>}, {crate})
          \/ HintOf({A, B}, {T1, T2}, {"ip1"}, {1})]_vars

(* the leaderboard entries of s that store the token p *)
EntriesOf(s, p) == {e \in DOMAIN s.leaderboard : s.leaderboard[e].player_id = p}

(* C34: in every reachable state of a lobby, each player token is the stored *)
(* token of at most one leaderboard entry, and the token index maps that     *)
(* token to exactly that entry.                                              *)
C34_OneEntryPerToken ==
    \A c \in DOMAIN LOBBIES :
        \A e \in DOMAIN LOBBIES[c].leaderboard :
            LET p == LOBBIES[c].leaderboard[e].player_id
            IN  /\ EntriesOf(LOBBIES[c], p) = {e}
                /\ p \in DOMAIN LOBBIES[c].player_map
                /\ LOBBIES[c].player_map[p] = e


-----------------------------------------------------------------------------
(* In SpecIdent every guess is sent with T1, so every hint was earned by the *)
(* client that holds T1.                                                     *)
HeldByEarner(s, e) == e \in DOMAIN s.leaderboard /\ s.leaderboard[e].player_id = T1

HintRedeemed == Served /\ resp'.op = "hint" /\ resp'.status = 200

(* C35: a pending Daily Double hint can be redeemed only by the player who   *)
(* earned it: every key of the pending-hint map is a leaderboard key held by *)
(* the earning player, also after a rename and after another player          *)
(* registers the freed emoji.                                                *)
C35_HintOnlyForEarner ==
    /\ [](\A c \in DOMAIN LOBBIES :
             \A e \in DOMAIN LOBBIES[c].daily_double_pending : HeldByEarner(LOBBIES[c], e))
    /\ [][HintRedeemed => resp'.player_id = T1]_vars

(* the second half alone: a hint is handed out to the earner only *)
HintRedeemedByEarner == [][HintRedeemed => resp'.player_id = T1]_vars


(* a hint is never handed out to a client that registered the emoji itself   *)
(* without having earned the hint                                            *)
HintNeverForNewHolder ==
    [][HintRedeemed /\ resp'.player_id = T2 =>
          LOBBIES[DEFAULT_LOBBY].leaderboard[resp'.emoji].player_id # T2]_vars


-----------------------------------------------------------------------------
(* SpecRace: one guess of A on lobby AAAAAA, statement group by statement    *)
(* group, with lines 793-794 and 795-796 as two groups, while the host       *)
(* resets the round once; guesses processed alone follow.                    *)
fuzzy == <<"f", "u", "z", "z", "y">>

SpecRace ==
    /\ InitWorld(Registered(crate, 3))
    /\ now = StartTime /\ resp = NoReq /\ call = NoCall
    /\ REQUEST_TIMES = EmptyDict /\ admitted = EmptyDict
    /\ \E raw \in {earth, carte} :
          threads = [start |-> World, th |-> <<ThreadOf(<<raw>> \o PlayerA)>>]
    /\ [][\/ /\ threads.th[1].pc # "done"
             /\ LET th == threads.th[1]
                    n == IF th.pc = "append" THEN G_result(World, th)
                         ELSE IF th.pc = "entry" THEN G_entry(World, th)
                         ELSE GuessStep(World, th, now, crate, 3)
                IN  SetWorld(n.w) /\ threads' = [threads EXCEPT !.th[1] = n.th]
             /\ UNCHANGED <<now, resp, call, REQUEST_TIMES, admitted>>
          \/ /\ LOBBIES[LobbyCode].past_games = <<>>
             /\ ResetOf({HostToken}, {fuzzy, crate})
          \/ /\ threads.th[1].pc = "done"
             /\ GuessOf({LobbyCode}, {<<fuzzy>> \o PlayerB, <<crate>> \o PlayerB,
                                      <<abbey>> \o PlayerA},
                        {<<TRUE, TRUE>>}, {crate})]_vars

(* the secret of s passes the hard-mode validation of s *)
SecretObeysHardMode(s) == validate_hard_mode(s.target_word, s)

(* C36: in every reachable state of a round in progress the secret word      *)
(* satisfies the hard-mode constraints accumulated from the round's guesses, *)
(* so a guess equal to the secret is never rejected by hard-mode validation. *)
C36_SecretObeysHardMode ==
    /\ [](\A c \in DOMAIN LOBBIES : ~LOBBIES[c].is_over => SecretObeysHardMode(LOBBIES[c]))
    /\ [][/\ Served /\ resp'.op = "guess"
          /\ resp'.code \in DOMAIN LOBBIES
          /\ TextOf(resp') = LOBBIES[resp'.code].target_word
          => resp'.status # 400]_vars


(* the second half alone: a guess equal to the secret is never answered 400 *)
SecretNeverRejected ==
    [][/\ Served /\ resp'.op = "guess"
       /\ resp'.code \in DOMAIN LOBBIES
       /\ TextOf(resp') = LOBBIES[resp'.code].target_word
       => resp'.status # 400]_vars


-----------------------------------------------------------------------------
(* a kick or a reset that carried no host token, sent to a registered lobby *)
NoTokenRequest ==
    /\ Served /\ resp'.op \in {"kick", "reset"} /\ resp'.arg = <<"None">>
    /\ resp'.code \in DOMAIN LOBBIES

(* C37: a kick or reset request that carries no host token is rejected as    *)
(* Forbidden for every registered lobby, also for a lobby instantiated by    *)
(* the first access to its code rather than by create.                       *)
C37_NoTokenForbidden == [][NoTokenRequest => resp'.status = 403]_vars

(* what holds: such a request is Forbidden on every lobby that has a host    *)
(* token, and it is let through on every lobby that has none                 *)
NoTokenForbiddenIfHosted ==
    [][NoTokenRequest /\ resp'.code \in DOMAIN purge_lobbies(World, now).L =>
          (resp'.status = 403 <=> LOBBIES[resp'.code].host_token # "None")]_vars


(* ---- broadcast_state under two requests of one lobby at a time ---- *)

(* the requests two callers send to the lobby at the same time *)
CastRequests ==
    << [h |-> "chat", emoji |-> A, player_id |-> T1, ip |-> "ip1", t |-> StartTime,
        text_len |-> 2],
       [h |-> "chat", emoji |-> B, player_id |-> T2, ip |-> "ip2", t |-> StartTime,
        text_len |-> 2],
       [h |-> "reset", emoji |-> NoEmoji, player_id |-> NoToken, ip |-> "", word |-> carte,
        dd_index |-> 3, t |-> StartTime],
       [h |-> "kick", emoji |-> B, player_id |-> NoToken, ip |-> "", token |-> HostToken,
        t |-> StartTime] >>

(* broadcast_state runs as two statement groups: the handler up to           *)
(* data = json.dumps(build_state_payload(s)) (line 523), then the loop of     *)
(* q.put_nowait(data) over the listeners (lines 524-528). A lobby with one    *)
(* open stream "q1"; each thread serves one request of CastRequests           *)
SpecCast ==
    /\ InitWorld(with_lobby(Registered(crate, 3), LobbyCode, StartTime, crate, 3,
                            [h |-> "stream", q |-> "q1"]).w)
    /\ now = StartTime /\ resp = NoReq /\ call = NoCall
    /\ REQUEST_TIMES = EmptyDict /\ admitted = EmptyDict
    /\ \E rqs \in [1..NThreads -> 1..Len(CastRequests)] :
          threads = [start |-> World,
                     th |-> [i \in 1..NThreads |-> [pc |-> "handler", rq |-> rqs[i], data |-> <<>>]]]
    /\ [][\E i \in 1..NThreads :
            LET th == threads.th[i]
            IN  \/ /\ th.pc = "handler"
                   /\ LET r == with_lobby(World, LobbyCode, now, crate, 3, CastRequests[th.rq])
                          sent == r.w.L[LobbyCode].listeners # LOBBIES[LobbyCode].listeners
                      IN  /\ SetWorld([r.w EXCEPT !.L[LobbyCode].listeners =
                                                      LOBBIES[LobbyCode].listeners])
                          /\ threads' = [threads EXCEPT !.th[i] =
                                 [th EXCEPT !.pc = IF sent THEN "put" ELSE "done",
                                            !.data = IF sent
                                                     THEN build_state_payload(r.w.L[LobbyCode])
                                                     ELSE <<>>]]
                   /\ UNCHANGED <<now, resp, call, REQUEST_TIMES, admitted>>
                \/ /\ th.pc = "put"
                   /\ LOBBIES' = [LOBBIES EXCEPT ![LobbyCode].listeners =
                                     [q \in DOMAIN @ |-> Append(@[q], th.data)]]
                   /\ threads' = [threads EXCEPT !.th[i].pc = "done"]
                   /\ UNCHANGED <<RECENTLY_REMOVED_LOBBIES, current_state, last_purge_time,
                                  persisted, now, resp, call, REQUEST_TIMES, admitted>>]_vars

CastDone == \A i \in DOMAIN threads.th : threads.th[i].pc = "done"

(* C38: once every request in flight on a lobby has returned, the last        *)
(* snapshot in the queue of each of its subscribers is the snapshot of the    *)
(* lobby's final state, whatever the interleaving of the requests             *)
C38_LastSnapshotIsFinal ==
    CastDone =>
        \A q \in DOMAIN LOBBIES[LobbyCode].listeners :
            LET sent == LOBBIES[LobbyCode].listeners[q]
            IN  sent # <<>> => sent[Len(sent)] = build_state_payload(LOBBIES[LobbyCode])

(* what does hold: the snapshot of the final state was built by one of the    *)
(* requests and is in every queue, though not always last                     *)
FinalSnapshotWasSent ==
    CastDone =>
        \A q \in DOMAIN LOBBIES[LobbyCode].listeners :
            LET sent == LOBBIES[LobbyCode].listeners[q]
            IN  sent # <<>> =>
                    \E k \in 1..Len(sent) : sent[k] = build_state_payload(LOBBIES[LobbyCode])


(* ---- push connections that close ---- *)

(* the finally clause of gen() (lines 568-569), run when the connection       *)
(* closes: by then _with_lobby has long returned, and current_state is        *)
(* whatever the module global names at that moment                            *)
gen_finally(w, q) == WithCS(w, [CS(w) EXCEPT !.listeners = Pop(@, q)])

(* Connections are opened on /stream and on /lobby/AAAAAA/stream and closed   *)
(* by their clients; threads records for each queue the path it was opened    *)
(* on and whether its generator still runs. Chat messages and a kick are      *)
(* broadcast meanwhile                                                        *)
SpecClose ==
    /\ InitWorld(Registered(crate, 3))
    /\ now = StartTime /\ resp = NoReq /\ threads = EmptyDict /\ call = NoCall
    /\ REQUEST_TIMES = EmptyDict /\ admitted = EmptyDict
    /\ [][\/ \E code \in {DEFAULT_LOBBY, LobbyCode}, q \in {"q1", "q2"} :
               LET rq == [h |-> "stream", q |-> q]
                   r == Route(World, code, now, crate, 3, rq)
               IN  /\ q \notin DOMAIN threads
                   /\ SetWorld(r.w)
                   /\ threads' = Put(threads, q, [pc |-> "open", code |-> code])
                   /\ resp' = Req("stream", code, NoEmoji, NoToken, "ip1", <<q>>, r)
                   /\ UNCHANGED <<now, call, REQUEST_TIMES, admitted>>
          \/ \E q \in DOMAIN threads :
               /\ threads[q].pc = "open"
               /\ SetWorld(gen_finally(World, q))
               /\ threads' = [threads EXCEPT ![q].pc = "closed"]
               /\ resp' = NoReq
               /\ UNCHANGED <<now, call, REQUEST_TIMES, admitted>>
          \/ ChatOf({LobbyCode}, {2}, {A, B}, {T1, T2}, {"ip1"}, {crate})
          \/ KickOf({B}, {HostToken}, {crate})]_vars

(* the connection of queue q, opened on the stream path of lobby code, closes *)
Closes(code, q) ==
    /\ q \in DOMAIN threads
    /\ threads[q] = [pc |-> "open", code |-> code]
    /\ threads'[q].pc = "closed"

(* C39: when a push connection opened through a lobby's stream path closes,   *)
(* its channel leaves that lobby's subscriber set                             *)
C39_ClosedChannelRemoved ==
    [][\A q \in {"q1", "q2"} :
          Closes(LobbyCode, q) => q \notin DOMAIN LOBBIES'[LobbyCode].listeners]_vars

(* the same for a connection opened on /stream, which does hold *)
LegacyClosedChannelRemoved ==
    [][\A q \in {"q1", "q2"} :
          Closes(DEFAULT_LOBBY, q) => q \notin DOMAIN LOBBIES'[DEFAULT_LOBBY].listeners]_vars

(* what holds for a lobby: its subscriber set holds every channel ever opened *)
(* on its stream path, open or closed                                         *)
LobbyChannelsStay ==
    \A q \in DOMAIN threads :
        threads[q].code = LobbyCode => q \in DOMAIN LOBBIES[LobbyCode].listeners


(* ---- players that were kicked or left, and lobbies that come back ---- *)

(* A lobby made by POST /lobby with the players A and B registered and no     *)
(* guess made: it never finishes, so a player is missing from it only after   *)
(* a kick or a leave, and the lobby is missing only after its last player     *)
(* was removed. Time passes, the lobby is looked up, players are kicked,      *)
(* leave and register again, purges run                                       *)
SpecGone ==
    /\ InitWorld(Registered(crate, 3))
    /\ now = StartTime /\ resp = NoReq /\ threads = NoThreads /\ call = NoCall
    /\ REQUEST_TIMES = EmptyDict /\ admitted = EmptyDict
    /\ [][\/ Tick
          \/ LobbyState
          \/ EmojiOf({LobbyCode}, {A}, {T1}, {"ip1"}, {crate})
          \/ LeaveOf({A}, {T1}, {"ip1"}, {crate})
          \/ LeaveOf({B}, {T2}, {"ip2"}, {crate})
          \/ KickOf({A, B}, {HostToken}, {crate})
          \/ cleanup_lobbies]_vars

(* emoji e is on the leaderboard of the lobby *)
Listed(e) == LobbyCode \in DOMAIN LOBBIES /\ e \in DOMAIN LOBBIES[LobbyCode].leaderboard

(* the request served registered emoji e in the lobby *)
RegisteredAgain(e) ==
    /\ resp'.op = "emoji" /\ resp'.code = LobbyCode /\ resp'.emoji = e /\ resp'.status = 200

(* C40: a player removed from a lobby by kick or leave is not on that lobby's *)
(* leaderboard again unless they register again, also after the lobby was     *)
(* evicted, its cooldown elapsed and it was recreated from its snapshot       *)
C40_RemovedStaysOut ==
    [][\A e \in {A, B} : ~Listed(e) /\ Listed(e)' => RegisteredAgain(e)]_vars

(* what holds: a player who is back without registering was read from the     *)
(* lobby's persisted snapshot                                                 *)
BackOnlyFromSnapshot ==
    [][\A e \in {A, B} :
          ~Listed(e) /\ Listed(e)' /\ ~RegisteredAgain(e)
              => /\ LobbyCode \in DOMAIN persisted
                 /\ e \in DOMAIN persisted[LobbyCode].leaderboard]_vars

=============================================================================
